---- MODULE Spec2Model ----
(***************************************************************************)
(* Cloudreve-Sync: the reconciliation pass of SyncEngine::sync_once         *)
(* (src-tauri/src/core/sync.rs) over a local tree, a remote namespace and   *)
(* the journal (entries, tombstones, conflicts, logs).                      *)
(*                                                                         *)
(* Strings are sequences of ASCII codes, so that sorting, file_stem,        *)
(* file_extension and the decimal rendering of integers are computed as     *)
(* the code computes them.                                                  *)
(***************************************************************************)
EXTENDS Integers, Sequences, FiniteSets, TLC

(* ------------------------------ bounds -------------------------------- *)
\* modification times external writers give their files: 1..MaxTime
MaxTime == 2
\* external mutations of the local tree / remote namespace per behaviour
MaxExt == 3
\* passes of sync_once per behaviour
MaxPasses == 3
\* file contents are 1..MaxContent; content c is c bytes long
MaxContent == 2
\* chunk sizes an upload session may return are 0..MaxChunk
MaxChunk == 1
\* calls that return Err per behaviour
MaxFail == 1
\* the storage policy answers 40049 to a whole-file PUT of more bytes
PolicyMaxSize == 1

\* longest content handed to upload_content on its own
MaxLen == 4

Times == 1..MaxTime
Contents == 1..MaxContent
ChunkSizes == 0..MaxChunk

(* ------------------------------ strings ------------------------------- *)
EmptyMap == [x \in {} |-> x]

Put(f, k, v) == [x \in (DOMAIN f) \cup {k} |-> IF x = k THEN v ELSE f[x]]

Remove(f, k) == [x \in (DOMAIN f) \ {k} |-> f[x]]

MinOf(a, b) == IF a <= b THEN a ELSE b

MaxOf(a, b) == IF a >= b THEN a ELSE b

\* String order of Rust's Vec<String>::sort(): byte-wise lexicographic.
RECURSIVE LexLess(_, _)
LexLess(a, b) ==
  IF a = <<>> THEN b # <<>>
  ELSE IF b = <<>> THEN FALSE
  ELSE IF Head(a) # Head(b) THEN Head(a) < Head(b)
  ELSE LexLess(Tail(a), Tail(b))

\* i64::to_string: "-" for a negative number, then the decimal digits, most
\* significant first.
RECURSIVE I64ToString(_)
I64ToString(n) ==
  IF n < 0 THEN <<45>> \o I64ToString(-n)
  ELSE IF n < 10 THEN <<48 + n>>
  ELSE I64ToString(n \div 10) \o <<48 + (n % 10)>>

IsDigits(s) == s # <<>> /\ \A i \in 1..Len(s) : s[i] \in 48..57

RECURSIVE DigitsValue(_)
DigitsValue(s) ==
  IF s = <<>> THEN 0 ELSE DigitsValue(SubSeq(s, 1, Len(s) - 1)) * 10 + (s[Len(s)] - 48)

\* str::parse::<i64>().ok() as a set: {} is None, {v} is Some(v).
\* An optional sign is followed by at least one digit.
ParseI64(s) ==
  IF IsDigits(s) THEN {DigitsValue(s)}
  ELSE IF s # <<>> /\ s[1] = 43 /\ IsDigits(Tail(s)) THEN {DigitsValue(Tail(s))}
  ELSE IF s # <<>> /\ s[1] = 45 /\ IsDigits(Tail(s)) THEN {0 - DigitsValue(Tail(s))}
  ELSE {}

(* ------------------------------ paths --------------------------------- *)
\* "a/e.t" and "b/e.t": the relpaths the external world writes to.
PathA == <<97, 47, 101, 46, 116>>

PathB == <<98, 47, 101, 46, 116>>

\* relpaths the user writes locally
LocalPaths == {PathA, PathB}

\* relpaths other installations and the web interface write remotely
RemotePaths == {PathA}

\* task.device_id, "d"
DeviceId == <<100>>

\* device id another installation tags its uploads with, "x"
OtherDeviceId == <<120>>

\* index of the last occurrence of byte c in s, 0 when there is none
LastIndexOf(s, c) ==
  LET hits == {i \in 1..Len(s) : s[i] = c}
  IN IF hits = {} THEN 0 ELSE CHOOSE i \in hits : \A j \in hits : j <= i

\* Path::file_name: the last component
FileName(path) == SubSeq(path, LastIndexOf(path, 47) + 1, Len(path))

\* file_extension: Path::extension as a set ({} is None). No extension when
\* the file name has no '.' or only a leading one.
file_extension(path) ==
  LET name == FileName(path)
      dot == LastIndexOf(name, 46)
  IN IF dot <= 1 THEN {} ELSE {SubSeq(name, dot + 1, Len(name))}

\* file_stem: Path::file_stem, falling back to the whole path
file_stem(path) ==
  LET name == FileName(path)
      dot == LastIndexOf(name, 46)
  IN IF name = <<>> THEN path
     ELSE IF dot <= 1 THEN name
     ELSE SubSeq(name, 1, dot - 1)

\* Local::now().format("%Y%m%d-%H%M%S"): one stamp per clock value
TimeStamp(t) == I64ToString(t)

\* handle_conflict: "{stem} (conflict-{device_id}-{timestamp})" + ".{ext}"
ConflictRelpath(relpath, t) ==
  LET conflict_name ==
        file_stem(relpath)
          \o <<32, 40, 99, 111, 110, 102, 108, 105, 99, 116, 45>>
          \o DeviceId \o <<45>> \o TimeStamp(t) \o <<41>>
      ext == file_extension(relpath)
  IN IF ext = {} THEN conflict_name
     ELSE conflict_name \o <<46>> \o (CHOOSE e \in ext : TRUE)

\* a variant of SortPaths that yields the paths in descending order
RECURSIVE SortPaths_descending(_)
SortPaths_descending(S) ==
  IF S = {} THEN <<>>
  ELSE LET m == CHOOSE x \in S : \A y \in S : y = x \/ LexLess(y, x)
       IN <<m>> \o SortPaths_descending(S \ {m})

\* all_paths.sort(); all_paths.dedup(): the ascending sequence of a set
RECURSIVE SortPaths(_)
SortPaths(S) ==
  IF S = {} THEN <<>>
  ELSE LET m == CHOOSE x \in S : \A y \in S : y = x \/ LexLess(x, y)
       IN <<m>> \o SortPaths(S \ {m})

(* ------------------------------ hashing ------------------------------- *)
\* hash_file: the SHA-256 hex digest, one distinct digest per content
\* ("h1", "h2", ...); never the empty string.
Sha(c) == <<104>> \o I64ToString(c)

\* content c is c bytes long
Size(c) == c

\* metadata keys customize:sync_*
META_DEVICE_ID == "customize:sync_device_id"

META_MTIME == "customize:sync_mtime_ms"

META_SHA256 == "customize:sync_sha256"

META_DELETED_AT == "customize:sync_deleted_at_ms"

META_CONFLICT_OF == "customize:sync_conflict_of"

META_CONFLICT_TS == "customize:sync_conflict_ts"

(* ------------------------------ state --------------------------------- *)
VARIABLES
  local,          \* the local tree: relpath -> [content, mtime]
  remote,         \* the remote namespace: relpath -> [content, updated_at, meta]
  entries,        \* journal entries of the task: relpath -> EntryRow
  tombstones,     \* journal tombstones of the task: relpath -> TombstoneRow
  conflicts,      \* conflicts table (no key): sequence of ConflictRow
  logs,           \* log rows appended by the current pass
  now,            \* wall clock (now_ms); every pass starts later than the last
  pc,             \* "idle" | "run" | "done" (Ok(stats)) | "failed" (Err)
  local_map,      \* sync_once locals: the snapshots and the path list
  remote_map,
  entry_map,
  tombstone_map,
  all_paths,
  idx,            \* position of the for loop in all_paths
  stats,          \* SyncStats of the current pass
  ops,            \* calls made by the last loop iteration: [k, path, ok]
  handled,        \* paths the loop has handled: [path, act, ok, net]
  fails,          \* calls that returned Err so far
  ext,            \* external mutations so far
  passes,         \* passes started so far
  walk_errors,    \* Err items the WalkDir of this pass's scan yielded
  quiet           \* completed passes in a row without failure or external mutation

\* The application around the engine (main.rs): the runner registry, the
\* threads it spawned, and the journal database shared by all tasks.
VARIABLES
  runners,        \* AppState.runners: task_id -> the worker whose stop flag it holds
  workers,        \* spawned worker threads: [task, stop, pc, failed (the last pass)]
  tray,           \* the thread of the tray "sync" item: [pc, todo]
  deleting,       \* delete_task_command in flight or returned: {[task, step]}
  db,             \* rows per table and task_id: [tasks, entries, tombstones, conflicts, logs]
  used            \* what the environment has done so far: [clicks, deletes, fails]

\* The libraries under the engine, each exercised on its own: the journal
\* store (core/db.rs), the transport (core/cloudreve.rs) and the URI
\* functions (core/sync.rs, main.rs).
VARIABLES
  store,          \* the journal database, row by row: [entries, tombstones, logs]
  txn,            \* the last call of the journal store: its arguments and result
  net,            \* the transport operation in flight or returned
  uri,            \* the last application of the URI and listing functions
  legacy          \* the last application of a function of the first engine (src/src)

runner_vars == <<runners, workers, tray, deleting, db, used>>

lib_vars == <<store, txn, net, uri, legacy>>

vars == <<local, remote, entries, tombstones, conflicts, logs, now, pc, local_map,
          remote_map, entry_map, tombstone_map, all_paths, idx, stats, ops,
          handled, fails, ext, passes, walk_errors, quiet, runners, workers, tray,
          deleting, db, used, store, txn, net, uri, legacy>>

TaskIds == {"t1", "t2"}

\* The application after start-up: no runner, and a database in which every
\* task has its row, one row in each table of the journal and no log row.
AppInit ==
  /\ runners = [x \in {} |-> x]
  /\ workers = <<>>
  /\ tray = [pc |-> "idle", todo |-> <<>>]
  /\ deleting = {}
  /\ db = [tasks |-> TaskIds, entries |-> TaskIds, tombstones |-> TaskIds,
           conflicts |-> TaskIds, logs |-> [t \in TaskIds |-> 0]]
  /\ used = [clicks |-> 0, deletes |-> 0, fails |-> 0]

\* The libraries at rest: the database after init_db (the tables exist and
\* are empty) and no call made.
LibInit ==
  /\ store = [entries |-> {}, tombstones |-> {}, logs |-> <<>>]
  /\ txn = [op |-> "none"]
  /\ net = [op |-> "none"]
  /\ uri = [op |-> "none"]
  /\ legacy = [op |-> "none"]

\* SyncStats::default()
ZeroStats == [uploaded_bytes |-> 0, downloaded_bytes |-> 0, operations |-> 0]

(* ------------------------ scan and normalisation ---------------------- *)
\* i64 `/` and `%`: the quotient is truncated toward zero and the remainder
\* has the sign of the dividend
RustDiv(a, b) == IF a >= 0 THEN a \div b ELSE -((-a) \div b)

RustRem(a, b) == a - b * RustDiv(a, b)

\* set_local_mtime returns Ok: filetime::set_file_mtime rejects a nanosecond
\* field above 999_999_999, which is what `as u32` makes of a negative
\* (mtime_ms % 1000) * 1_000_000
set_local_mtime_ok(mtime_ms) == RustRem(mtime_ms, 1000) >= 0

\* set_local_mtime: mtime_ms -> (secs, nanos) -> the file's mtime in ms
set_local_mtime(mtime_ms) ==
  LET secs == RustDiv(mtime_ms, 1000)
      nanos == RustRem(mtime_ms, 1000) * 1000000
  IN secs * 1000 + nanos \div 1000000

\* scan_local returns Err: modified().duration_since(UNIX_EPOCH) fails for a
\* file whose mtime is before the epoch
scan_local_fails(tree) == \E p \in DOMAIN tree : tree[p].mtime < 0

\* scan_local + to_local_map: relpath -> LocalFileInfo
scan_local(tree) ==
  [p \in DOMAIN tree |->
     [relpath |-> p, mtime_ms |-> tree[p].mtime, sha256 |-> Sha(tree[p].content)]]

\* to_remote_map: one listed record -> RemoteFileInfo
RemoteInfo(p, file) ==
  LET parsed_mtime == IF META_MTIME \in DOMAIN file.meta
                      THEN ParseI64(file.meta[META_MTIME]) ELSE {}
      parsed_deleted == IF META_DELETED_AT \in DOMAIN file.meta
                        THEN ParseI64(file.meta[META_DELETED_AT]) ELSE {}
  IN [file_id |-> p,
      relpath |-> p,
      mtime_ms |-> IF parsed_mtime # {} THEN CHOOSE v \in parsed_mtime : TRUE
                   ELSE file.updated_at,
      sha256 |-> IF META_SHA256 \in DOMAIN file.meta THEN file.meta[META_SHA256]
                 ELSE <<>>,
      deleted_at_ms |-> parsed_deleted]

to_remote_map(files) == [p \in DOMAIN files |-> RemoteInfo(p, files[p])]

(* ------------------------------ decision ------------------------------ *)
local_changed(L, E, hasE) ==
  IF hasE THEN E.last_local_sha256 # L.sha256 \/ E.last_local_mtime_ms # L.mtime_ms
  ELSE TRUE

remote_changed(R, E, hasE) ==
  IF hasE THEN E.last_remote_sha256 # R.sha256 \/ E.last_remote_mtime_ms # R.mtime_ms
  ELSE TRUE

\* a variant of prefer_local that lets the remote win on equal mtimes
prefer_local_strict(L, R, E, hasE) ==
  local_changed(L, E, hasE)
    /\ (~remote_changed(R, E, hasE) \/ ~hasE \/ L.mtime_ms > R.mtime_ms)

prefer_local(L, R, E, hasE) ==
  local_changed(L, E, hasE)
    /\ (~remote_changed(R, E, hasE) \/ ~hasE \/ L.mtime_ms >= R.mtime_ms)

\* a variant of Decide whose conflict test does not compare the hashes
Decide_any_double_change(p, lm, rm, em, tm) ==
  LET hasL == p \in DOMAIN lm
      hasR == p \in DOMAIN rm
      hasE == p \in DOMAIN em
      hasT == p \in DOMAIN tm
  IN IF hasR /\ rm[p].deleted_at_ms # {} THEN "remote_deleted"
     ELSE IF ~hasL /\ hasE /\ ~hasT
       THEN IF hasR THEN "set_remote_deleted" ELSE "none"
     ELSE IF hasL /\ hasR
       THEN IF hasE /\ local_changed(lm[p], em[p], hasE)
                 /\ remote_changed(rm[p], em[p], hasE)
              THEN "handle_conflict"
            ELSE IF prefer_local(lm[p], rm[p], IF hasE THEN em[p] ELSE <<>>, hasE)
              THEN "upload_local"
            ELSE IF remote_changed(rm[p], IF hasE THEN em[p] ELSE <<>>, hasE)
              THEN "download_remote"
            ELSE "none"
     ELSE IF hasL THEN "upload_new_local"
     ELSE IF hasR THEN "download_new_remote"
     ELSE "none"

\* The branch the loop body of sync_once takes for relpath p, read off the
\* four snapshot maps.
Decide(p, lm, rm, em, tm) ==
  LET hasL == p \in DOMAIN lm
      hasR == p \in DOMAIN rm
      hasE == p \in DOMAIN em
      hasT == p \in DOMAIN tm
  IN IF hasR /\ rm[p].deleted_at_ms # {} THEN "remote_deleted"
     ELSE IF ~hasL /\ hasE /\ ~hasT
       THEN IF hasR THEN "set_remote_deleted" ELSE "none"
     ELSE IF hasL /\ hasR
       THEN IF hasE /\ local_changed(lm[p], em[p], hasE)
                 /\ remote_changed(rm[p], em[p], hasE)
                 /\ lm[p].sha256 # rm[p].sha256
              THEN "handle_conflict"
            ELSE IF prefer_local(lm[p], rm[p], IF hasE THEN em[p] ELSE <<>>, hasE)
              THEN "upload_local"
            ELSE IF remote_changed(rm[p], IF hasE THEN em[p] ELSE <<>>, hasE)
              THEN "download_remote"
            ELSE "none"
     ELSE IF hasL THEN "upload_new_local"
     ELSE IF hasR THEN "download_new_remote"
     ELSE "none"

(* ------------------------- calls and their effects -------------------- *)
\* A handler is the sequence of calls it makes. Each call is a record with
\* a kind k and a target path; a call marked fallible may return Err, which
\* ends the handler at that call ("?").

\* calls that send a write to the remote service
NetworkWrites == {"put_content", "put_content_40049", "put_content_err",
                  "create_upload_session", "upload_chunk", "patch_metadata"}

Fallible(c) == c.k \notin {"put_content_40049", "put_content_err", "session_done",
                           "stats_download"}

\* what the call needs in order to succeed at all
Pre(S, c) ==
  CASE c.k = "fs_read" -> c.path \in DOMAIN S.local
    [] c.k = "set_local_mtime" ->
         c.path \in DOMAIN S.local /\ set_local_mtime_ok(c.mtime_ms)
    [] c.k = "fs_copy" -> c.from \in DOMAIN S.local
    [] c.k \in {"download_file", "patch_metadata"} -> c.path \in DOMAIN S.remote
    [] c.k = "put_content_err" -> FALSE
    [] OTHER -> TRUE

\* the service stores content at a URI (whole-file PUT or completed session)
StoreContent(files, path, content, t) ==
  IF path \in DOMAIN files
  THEN [files EXCEPT ![path].content = content, ![path].updated_at = t]
  ELSE Put(files, path, [content |-> content, updated_at |-> t, meta |-> EmptyMap])

\* the service applies MetadataPatch{key, value, remove} to a file
PatchMeta(meta, set, remove) ==
  [key \in ((DOMAIN meta) \cup (DOMAIN set)) \ remove |->
     IF key \in DOMAIN set THEN set[key] ELSE meta[key]]

AddUploaded(st, with_stats, bytes, nops) ==
  IF with_stats
  THEN [st EXCEPT !.uploaded_bytes = @ + bytes, !.operations = @ + nops]
  ELSE st

\* the effect of a successful call
Apply(S, c, t) ==
  CASE c.k = "put_content" ->
         [S EXCEPT !.remote = StoreContent(S.remote, c.path, c.content, t),
                   !.stats = AddUploaded(S.stats, c.with_stats, Size(c.content), 1)]
    [] c.k = "upload_chunk" ->
         [S EXCEPT !.remote = IF c.last
                              THEN StoreContent(S.remote, c.path, c.content, t)
                              ELSE S.remote,
                   !.stats = AddUploaded(S.stats, c.with_stats, c.to - c.from, 0)]
    [] c.k = "session_done" ->
         [S EXCEPT !.stats = AddUploaded(S.stats, c.with_stats, 0, 1)]
    [] c.k = "patch_metadata" ->
         [S EXCEPT !.remote[c.path].meta = PatchMeta(@, c.set, c.remove)]
    [] c.k = "fs_write" ->
         [S EXCEPT !.local = Put(S.local, c.path, [content |-> c.content, mtime |-> t])]
    [] c.k = "set_local_mtime" ->
         [S EXCEPT !.local[c.path].mtime = set_local_mtime(c.mtime_ms)]
    [] c.k = "fs_copy" ->
         [S EXCEPT !.local = Put(S.local, c.path,
                                 [content |-> S.local[c.from].content, mtime |-> t])]
    [] c.k = "remove_local_file" ->
         [S EXCEPT !.local = Remove(S.local, c.path)]
    [] c.k = "upsert_entry" ->
         [S EXCEPT !.entries = Put(S.entries, c.path, c.row)]
    [] c.k = "insert_tombstone" ->
         [S EXCEPT !.tombstones = Put(S.tombstones, c.path, c.row)]
    [] c.k = "insert_conflict" ->
         [S EXCEPT !.conflicts = Append(S.conflicts, c.row)]
    [] c.k = "log_db" ->
         [S EXCEPT !.logs = Append(S.logs, [level |-> c.level, event |-> c.event,
                                            path |-> c.path, created_at_ms |-> t])]
    [] c.k = "stats_download" ->
         [S EXCEPT !.stats = [@ EXCEPT !.downloaded_bytes = @ + Size(c.content),
                                       !.operations = @ + 1]]
    [] OTHER -> S

Record(S, c, ok) ==
  [S EXCEPT !.ops = Append(@, [k |-> c.k, path |-> c.path, ok |-> ok, call |-> c])]

\* Run the calls in order; call number fail (0: none) returns Err, and so
\* does a call whose precondition does not hold.
RECURSIVE Run(_, _, _, _, _)
Run(calls, i, S, fail, t) ==
  IF i > Len(calls) THEN S
  ELSE IF i = fail \/ ~Pre(S, calls[i])
    THEN [Record(S, calls[i], FALSE) EXCEPT !.err = TRUE]
  ELSE Run(calls, i + 1,
           Apply(Record(S, calls[i], calls[i].k # "put_content_40049"), calls[i], t),
           fail, t)

FailPoints(calls) == {0} \cup {i \in 1..Len(calls) : Fallible(calls[i])}

(* ------------------------------ handlers ------------------------------ *)
\* upload_with_session: the chunk loop for content of length len
RECURSIVE ChunkCalls(_, _, _, _, _, _)
ChunkCalls(path, content, chunk_size, index, offset, with_stats) ==
  IF offset < Size(content)
  THEN LET end == MinOf(offset + chunk_size, Size(content))
       IN <<[k |-> "upload_chunk", path |-> path, index |-> index, from |-> offset,
             to |-> end, last |-> (end = Size(content)), content |-> content,
             with_stats |-> with_stats]>>
          \o ChunkCalls(path, content, chunk_size, index + 1, end, with_stats)
  ELSE <<>>

\* (variant: a returned chunk size of 0 is replaced by 1)
upload_with_session_unit_chunk(path, content, session_chunk_size, with_stats) ==
  LET chunk_size == IF session_chunk_size > 0 THEN session_chunk_size ELSE 1
  IN <<[k |-> "create_upload_session", path |-> path, size |-> Size(content),
        chunk_size |-> session_chunk_size]>>
     \o ChunkCalls(path, content, chunk_size, 0, 0, with_stats)

upload_with_session(path, content, session_chunk_size, with_stats) ==
  LET chunk_size == IF session_chunk_size > 0 THEN session_chunk_size
                    ELSE MaxOf(Size(content), 1)
  IN <<[k |-> "create_upload_session", path |-> path, size |-> Size(content),
        chunk_size |-> session_chunk_size]>>
     \o ChunkCalls(path, content, chunk_size, 0, 0, with_stats)

\* str::contains: pat occurs in text
Contains(text, pat) ==
  \E i \in 1..(Len(text) - Len(pat) + 1) : SubSeq(text, i, i + Len(pat) - 1) = pat

\* the service code of "file too large"
FileTooLargeCode == 40049

\* CloudreveError::from_u32: the kind of a service code
from_u32(code) == IF code = FileTooLargeCode THEN "FileTooLarge" ELSE "ServiceError"

\* is_file_too_large: a CloudreveError is judged by its kind, any other error
\* by whether its message contains "40049"
is_file_too_large(err) ==
  IF err.cloudreve THEN from_u32(err.code) = "FileTooLarge"
  ELSE Contains(err.text, I64ToString(FileTooLargeCode))

\* errors update_file_content returns: the service code 40049, another
\* service code, a transport error ("t"), and a transport error whose
\* message quotes a URL with "40049" in it ("u40049")
TooLargeError == [cloudreve |-> TRUE, code |-> FileTooLargeCode, text |-> <<>>]

PutErrors ==
  {TooLargeError,
   [cloudreve |-> TRUE, code |-> FileTooLargeCode + 1, text |-> <<>>],
   [cloudreve |-> FALSE, code |-> 0, text |-> <<116>>],
   [cloudreve |-> FALSE, code |-> 0, text |-> <<117>> \o I64ToString(FileTooLargeCode)]}

\* upload_content: the whole-file PUT and, when it fails with an error that
\* is_file_too_large accepts, the upload session. v.put_err is what the PUT
\* returns ({}: Ok), v.chunk_size the chunk size the session returns.
upload_content(path, content, with_stats, v) ==
  IF v.put_err = {}
  THEN <<[k |-> "put_content", path |-> path, content |-> content,
          with_stats |-> with_stats]>>
  ELSE LET err == CHOOSE e \in v.put_err : TRUE
       IN IF is_file_too_large(err)
          THEN <<[k |-> "put_content_40049", path |-> path, err |-> err]>>
               \o upload_with_session(path, content, v.chunk_size, with_stats)
               \o <<[k |-> "session_done", path |-> path, with_stats |-> with_stats]>>
          ELSE <<[k |-> "put_content_err", path |-> path, err |-> err]>>

NoVariant == {[put_err |-> {}, chunk_size |-> 0]}

\* every answer to an upload: any error of the PUT, any session chunk size
AllUploadVariants ==
  NoVariant \cup {[put_err |-> {e}, chunk_size |-> cs] : e \in PutErrors,
                                                       cs \in 0..(MaxLen + 1)}

\* the answers of the service to an upload of content
UploadVariants(content) ==
  IF Size(content) <= PolicyMaxSize THEN NoVariant
  ELSE {[put_err |-> {TooLargeError}, chunk_size |-> cs] : cs \in ChunkSizes}

\* a variant of patch_sync_metadata that leaves sync_sha256 out of the patch
patch_sync_metadata_no_sha(path, L, has_remote) ==
  [k |-> "patch_metadata", path |-> path,
   set |-> [key \in {META_DEVICE_ID, META_MTIME} |->
              CASE key = META_DEVICE_ID -> DeviceId
                [] OTHER -> I64ToString(L.mtime_ms)],
   remove |-> IF has_remote THEN {META_DELETED_AT} ELSE {}]

\* (variant: customize:sync_mtime_ms is written in seconds)
patch_sync_metadata_seconds(path, L, has_remote) ==
  [k |-> "patch_metadata", path |-> path,
   set |-> [key \in {META_DEVICE_ID, META_MTIME, META_SHA256} |->
              CASE key = META_DEVICE_ID -> DeviceId
                [] key = META_MTIME -> I64ToString(RustDiv(L.mtime_ms, 1000))
                [] OTHER -> L.sha256],
   remove |-> IF has_remote THEN {META_DELETED_AT} ELSE {}]

\* patch_sync_metadata(uri, local, remote): remote.is_some() adds the removal
patch_sync_metadata(path, L, has_remote) ==
  [k |-> "patch_metadata", path |-> path,
   set |-> [key \in {META_DEVICE_ID, META_MTIME, META_SHA256} |->
              CASE key = META_DEVICE_ID -> DeviceId
                [] key = META_MTIME -> I64ToString(L.mtime_ms)
                [] OTHER -> L.sha256],
   remove |-> IF has_remote THEN {META_DELETED_AT} ELSE {}]

patch_conflict_metadata(path, L, R, t) ==
  [k |-> "patch_metadata", path |-> path,
   set |-> [key \in {META_DEVICE_ID, META_MTIME, META_SHA256, META_CONFLICT_OF,
                     META_CONFLICT_TS} |->
              CASE key = META_DEVICE_ID -> DeviceId
                [] key = META_MTIME -> I64ToString(L.mtime_ms)
                [] key = META_SHA256 -> L.sha256
                [] key = META_CONFLICT_OF -> R.file_id
                [] OTHER -> I64ToString(t)],
   remove |-> {}]

\* set_remote_deleted(uri, deleted_at_ms)
set_remote_deleted(path, deleted_at_ms) ==
  [k |-> "patch_metadata", path |-> path,
   set |-> [key \in {META_DELETED_AT} |-> I64ToString(deleted_at_ms)],
   remove |-> {}]

EntryRow(file_id, mtime_ms, sha256, t) ==
  [cloud_file_id |-> file_id,
   last_local_mtime_ms |-> mtime_ms, last_local_sha256 |-> sha256,
   last_remote_mtime_ms |-> mtime_ms, last_remote_sha256 |-> sha256,
   last_sync_ts_ms |-> t, state |-> "ok"]

\* the EntryRow upload_new_local and upload_local upsert
UploadEntry(file_id, L, t) == EntryRow(file_id, L.mtime_ms, L.sha256, t)

\* a variant of DownloadEntry that leaves the local hash of the row unset
DownloadEntry_local_unset(R, t) ==
  [EntryRow(R.file_id, R.mtime_ms, R.sha256, t) EXCEPT !.last_local_sha256 = <<>>]

\* the EntryRow download_new_remote and download_remote upsert
DownloadEntry(R, t) == EntryRow(R.file_id, R.mtime_ms, R.sha256, t)

LogCall(level, event, path) ==
  [k |-> "log_db", level |-> level, event |-> event, path |-> path]

\* fs::read of the file at the moment of the call (0: no such file)
ReadContent(tree, path) == IF path \in DOMAIN tree THEN tree[path].content ELSE 0

upload_new_local(p, L, tree, t, v) ==
  <<[k |-> "fs_read", path |-> p]>>
    \o upload_content(p, ReadContent(tree, p), TRUE, v)
    \o <<patch_sync_metadata(p, L, FALSE),
         [k |-> "upsert_entry", path |-> p, row |-> UploadEntry(<<>>, L, t)],
         LogCall("info", "upload", p)>>

\* (variant: the journal entry is written before the metadata patch)
upload_local_entry_first(p, L, R, tree, t, v) ==
  <<[k |-> "fs_read", path |-> p]>>
    \o upload_content(p, ReadContent(tree, p), TRUE, v)
    \o <<[k |-> "upsert_entry", path |-> p, row |-> UploadEntry(R.file_id, L, t)],
         patch_sync_metadata(p, L, TRUE),
         LogCall("info", "upload", p)>>

upload_local(p, L, R, tree, t, v) ==
  <<[k |-> "fs_read", path |-> p]>>
    \o upload_content(p, ReadContent(tree, p), TRUE, v)
    \o <<patch_sync_metadata(p, L, TRUE),
         [k |-> "upsert_entry", path |-> p, row |-> UploadEntry(R.file_id, L, t)],
         LogCall("info", "upload", p)>>

download_new_remote(p, R, files, t) ==
  <<[k |-> "create_dir_all", path |-> p],
    [k |-> "download_file", path |-> p],
    [k |-> "fs_write", path |-> p, content |-> ReadContent(files, p)],
    [k |-> "set_local_mtime", path |-> p, mtime_ms |-> R.mtime_ms],
    [k |-> "upsert_entry", path |-> p, row |-> DownloadEntry(R, t)],
    LogCall("info", "download", p),
    [k |-> "stats_download", path |-> p, content |-> ReadContent(files, p)]>>

download_remote(p, L, R, files, t) ==
  <<[k |-> "download_file", path |-> p],
    [k |-> "fs_write", path |-> p, content |-> ReadContent(files, p)],
    [k |-> "set_local_mtime", path |-> p, mtime_ms |-> R.mtime_ms],
    [k |-> "upsert_entry", path |-> p, row |-> DownloadEntry(R, t)],
    LogCall("info", "download", p),
    [k |-> "stats_download", path |-> p, content |-> ReadContent(files, p)]>>

\* a variant of handle_conflict that uploads the local content to the
\* original URI instead of the conflict copy's
handle_conflict_in_place(p, L, R, tree, t, v) ==
  LET conflict_relpath == ConflictRelpath(p, t)
  IN <<[k |-> "create_dir_all", path |-> conflict_relpath],
       [k |-> "fs_copy", path |-> conflict_relpath, from |-> p],
       [k |-> "fs_read", path |-> conflict_relpath]>>
     \o upload_content(p, ReadContent(tree, p), FALSE, v)
     \o <<patch_conflict_metadata(p, L, R, t),
          [k |-> "insert_conflict", path |-> conflict_relpath,
           row |-> [original_relpath |-> p, conflict_relpath |-> conflict_relpath,
                    created_at_ms |-> t, reason |-> "both_modified"]],
          LogCall("warn", "conflict", p)>>

handle_conflict(p, L, R, tree, t, v) ==
  LET conflict_relpath == ConflictRelpath(p, t)
  IN <<[k |-> "create_dir_all", path |-> conflict_relpath],
       [k |-> "fs_copy", path |-> conflict_relpath, from |-> p],
       [k |-> "fs_read", path |-> conflict_relpath]>>
     \o upload_content(conflict_relpath, ReadContent(tree, p), FALSE, v)
     \o <<patch_conflict_metadata(conflict_relpath, L, R, t),
          [k |-> "insert_conflict", path |-> conflict_relpath,
           row |-> [original_relpath |-> p, conflict_relpath |-> conflict_relpath,
                    created_at_ms |-> t, reason |-> "both_modified"]],
          LogCall("warn", "conflict", p)>>

\* a variant of remote_deleted that inserts the tombstone whether or not
\* the path has one
remote_deleted_always_inserts(p, hasL, R, hasT) ==
  (IF hasL THEN <<[k |-> "remove_local_file", path |-> p],
                  LogCall("warn", "delete", p)>>
   ELSE <<>>)
    \o <<[k |-> "insert_tombstone", path |-> p,
          row |-> [cloud_file_id |-> R.file_id,
                   deleted_at_ms |-> CHOOSE d \in R.deleted_at_ms : TRUE,
                   origin |-> "remote"]]>>

\* sync_once, the branch for a remote record that carries sync_deleted_at_ms
remote_deleted(p, hasL, R, hasT) ==
  (IF hasL THEN <<[k |-> "remove_local_file", path |-> p],
                  LogCall("warn", "delete", p)>>
   ELSE <<>>)
    \o (IF ~hasT
        THEN <<[k |-> "insert_tombstone", path |-> p,
                row |-> [cloud_file_id |-> R.file_id,
                         deleted_at_ms |-> CHOOSE d \in R.deleted_at_ms : TRUE,
                         origin |-> "remote"]]>>
        ELSE <<>>)

\* a variant of local_deleted that writes the tombstone before the patch
local_deleted_tombstone_first(p, R, t) ==
  <<[k |-> "insert_tombstone", path |-> p,
     row |-> [cloud_file_id |-> R.file_id, deleted_at_ms |-> t, origin |-> "local"]],
    set_remote_deleted(p, t),
    LogCall("warn", "delete", p)>>

\* sync_once, the branch for a file deleted locally since the last sync
local_deleted(p, R, t) ==
  <<set_remote_deleted(p, t),
    [k |-> "insert_tombstone", path |-> p,
     row |-> [cloud_file_id |-> R.file_id, deleted_at_ms |-> t, origin |-> "local"]],
    LogCall("warn", "delete", p)>>

\* the calls of the loop body for path p
Calls(act, p, lm, rm, tm, tree, files, t, v) ==
  CASE act = "remote_deleted" ->
         remote_deleted(p, p \in DOMAIN lm, rm[p], p \in DOMAIN tm)
    [] act = "set_remote_deleted" -> local_deleted(p, rm[p], t)
    [] act = "handle_conflict" -> handle_conflict(p, lm[p], rm[p], tree, t, v)
    [] act = "upload_local" -> upload_local(p, lm[p], rm[p], tree, t, v)
    [] act = "download_remote" -> download_remote(p, lm[p], rm[p], files, t)
    [] act = "upload_new_local" -> upload_new_local(p, lm[p], tree, t, v)
    [] act = "download_new_remote" -> download_new_remote(p, rm[p], files, t)
    [] OTHER -> <<>>

Uploads(act) == act \in {"handle_conflict", "upload_local", "upload_new_local"}

(* ------------------------------ actions ------------------------------- *)
\* After construction: empty trees, empty journal, no pass running.
Init ==
  /\ local = EmptyMap
  /\ remote = EmptyMap
  /\ entries = EmptyMap
  /\ tombstones = EmptyMap
  /\ conflicts = <<>>
  /\ logs = <<>>
  /\ now = MaxTime
  /\ pc = "idle"
  /\ local_map = EmptyMap
  /\ remote_map = EmptyMap
  /\ entry_map = EmptyMap
  /\ tombstone_map = EmptyMap
  /\ all_paths = <<>>
  /\ idx = 1
  /\ stats = ZeroStats
  /\ ops = <<>>
  /\ handled = <<>>
  /\ fails = 0
  /\ ext = 0
  /\ passes = 0
  /\ walk_errors = 0
  /\ quiet = 0
  /\ AppInit
  /\ LibInit

journal_vars == <<entries, tombstones, conflicts, logs>>

pass_vars == <<pc, local_map, remote_map, entry_map, tombstone_map, all_paths, idx,
               stats, ops, handled, fails, passes, walk_errors>>

\* External mutations happen between passes, when the locals of the last
\* sync_once call (its snapshots, path list and stats) are gone. Mutations
\* and failing calls together are at most MaxExt.
External ==
  /\ pc # "run"
  /\ ext + fails < MaxExt
  /\ ext' = ext + 1
  /\ quiet' = 0
  /\ pc' = "idle"
  /\ local_map' = EmptyMap
  /\ remote_map' = EmptyMap
  /\ entry_map' = EmptyMap
  /\ tombstone_map' = EmptyMap
  /\ all_paths' = <<>>
  /\ idx' = 1
  /\ stats' = ZeroStats
  /\ ops' = <<>>
  /\ handled' = <<>>
  /\ logs' = <<>>
  /\ walk_errors' = 0
  /\ UNCHANGED <<entries, tombstones, conflicts, fails, passes, now>>
  /\ UNCHANGED <<runner_vars, lib_vars>>

\* The user writes a local file; its mtime is any time up to now.
LocalWrite ==
  /\ External
  /\ \E p \in LocalPaths, c \in Contents, m \in Times :
       local' = Put(local, p, [content |-> c, mtime |-> m])
  /\ UNCHANGED remote

\* The user deletes a local file.
LocalDelete ==
  /\ External
  /\ \E p \in LocalPaths \cap DOMAIN local : local' = Remove(local, p)
  /\ UNCHANGED remote

\* Another installation uploads a file and tags it with its sync metadata.
RemoteSyncUpload ==
  /\ External
  /\ \E p \in RemotePaths, c \in Contents, m \in Times :
       remote' = Put(remote, p,
                     [content |-> c, updated_at |-> now,
                      meta |-> PatchMeta(IF p \in DOMAIN remote THEN remote[p].meta
                                         ELSE EmptyMap,
                                         [key \in {META_DEVICE_ID, META_MTIME, META_SHA256}
                                            |-> CASE key = META_DEVICE_ID -> OtherDeviceId
                                                  [] key = META_MTIME -> I64ToString(m)
                                                  [] OTHER -> Sha(c)],
                                         {META_DELETED_AT})])
  /\ UNCHANGED local

\* A file is uploaded through the web interface: no sync metadata is
\* written (a new file has none, an overwritten file keeps what it had).
RemotePlainUpload ==
  /\ External
  /\ \E p \in RemotePaths, c \in Contents : remote' = StoreContent(remote, p, c, now)
  /\ UNCHANGED local

\* Another installation marks a remote file as deleted.
RemoteMarkDeleted ==
  /\ External
  /\ \E p \in RemotePaths \cap DOMAIN remote, m \in Times :
       remote' = [remote EXCEPT ![p].meta =
                    PatchMeta(@, [key \in {META_DELETED_AT} |-> I64ToString(m)], {})]
  /\ UNCHANGED local

\* A remote file is removed for good through the web interface.
RemoteRemove ==
  /\ External
  /\ \E p \in RemotePaths \cap DOMAIN remote : remote' = Remove(remote, p)
  /\ UNCHANGED local

\* sync_once up to the loop: read the journal, scan, list, build all_paths.
PassBegin ==
  /\ pc # "run"
  /\ passes < MaxPasses
  /\ ~scan_local_fails(local)
  /\ passes' = passes + 1
  /\ pc' = "run"
  /\ local_map' = scan_local(local)
  /\ remote_map' = to_remote_map(remote)
  /\ entry_map' = entries
  /\ tombstone_map' = tombstones
  /\ all_paths' = SortPaths((DOMAIN local) \cup (DOMAIN remote) \cup (DOMAIN entries))
  /\ idx' = 1
  /\ stats' = ZeroStats
  /\ ops' = <<>>
  /\ handled' = <<>>
  /\ logs' = <<>>
  /\ now' = now + 1
  /\ walk_errors' = 0
  /\ UNCHANGED <<local, remote, entries, tombstones, conflicts, fails, ext, quiet>>
  /\ UNCHANGED <<runner_vars, lib_vars>>

\* the first component of a relpath that has more than one, <<>> otherwise
TopDir(path) ==
  LET hits == {i \in 1..Len(path) : path[i] = 47}
  IN IF hits = {} THEN <<>>
     ELSE SubSeq(path, 1, (CHOOSE i \in hits : \A j \in hits : i <= j) - 1)

\* directories WalkDir can fail to read: the root (<<>>) and the top
\* directories of the tree
WalkDirs(tree) == {<<>>} \cup {TopDir(p) : p \in DOMAIN tree}

\* the files WalkDir still yields when it cannot read directory d
Walked(tree, d) ==
  [p \in {q \in DOMAIN tree : d # <<>> /\ TopDir(q) # d} |-> tree[p]]

\* sync_once up to the loop when WalkDir cannot read a directory (or the
\* root is missing): filter_map(Result::ok) drops the Err item, scan_local
\* returns Ok with the files it did see, and the pass goes on.
PassBeginWalkError ==
  /\ pc # "run"
  /\ passes < MaxPasses
  /\ fails < MaxFail
  /\ fails' = fails + 1
  /\ passes' = passes + 1
  /\ pc' = "run"
  /\ \E d \in WalkDirs(local) :
       /\ ~scan_local_fails(Walked(local, d))
       /\ local_map' = scan_local(Walked(local, d))
       /\ all_paths' = SortPaths((DOMAIN Walked(local, d)) \cup (DOMAIN remote)
                                   \cup (DOMAIN entries))
  /\ remote_map' = to_remote_map(remote)
  /\ entry_map' = entries
  /\ tombstone_map' = tombstones
  /\ idx' = 1
  /\ stats' = ZeroStats
  /\ ops' = <<>>
  /\ handled' = <<>>
  /\ logs' = <<>>
  /\ now' = now + 1
  /\ walk_errors' = 1
  /\ UNCHANGED <<local, remote, entries, tombstones, conflicts, ext, quiet>>
  /\ UNCHANGED <<runner_vars, lib_vars>>

\* sync_once returns Err before the loop: the journal cannot be opened or
\* read, the local scan fails or the remote listing fails.
PassBeginFails ==
  /\ pc # "run"
  /\ passes < MaxPasses
  /\ fails < MaxFail
  /\ fails' = fails + 1
  /\ passes' = passes + 1
  /\ pc' = "failed"
  /\ local_map' = EmptyMap
  /\ remote_map' = EmptyMap
  /\ entry_map' = EmptyMap
  /\ tombstone_map' = EmptyMap
  /\ all_paths' = <<>>
  /\ idx' = 1
  /\ stats' = ZeroStats
  /\ ops' = <<>>
  /\ handled' = <<>>
  /\ logs' = <<>>
  /\ quiet' = 0
  /\ now' = now + 1
  /\ walk_errors' = 0
  /\ UNCHANGED <<local, remote, entries, tombstones, conflicts, ext>>
  /\ UNCHANGED <<runner_vars, lib_vars>>

\* the state a handler works on
Current ==
  [local |-> local, remote |-> remote, entries |-> entries,
   tombstones |-> tombstones, conflicts |-> conflicts, logs |-> logs,
   stats |-> stats, ops |-> <<>>, err |-> FALSE]

\* The outcome of the loop body for all_paths[idx]: the handler's calls with
\* call number fail returning Err.
Body(v, fail) ==
  LET p == all_paths[idx]
      act == Decide(p, local_map, remote_map, entry_map, tombstone_map)
  IN Run(Calls(act, p, local_map, remote_map, tombstone_map, local, remote, now, v),
         1, Current, fail, now)

BodyChoices ==
  LET p == all_paths[idx]
      act == Decide(p, local_map, remote_map, entry_map, tombstone_map)
      vs == IF Uploads(act) THEN UploadVariants(ReadContent(local, p)) ELSE NoVariant
  IN UNION {{<<v, fail>> : fail \in
               IF fails < MaxFail
               THEN FailPoints(Calls(act, p, local_map, remote_map, tombstone_map,
                                     local, remote, now, v))
               ELSE {0}} : v \in vs}

Install(S) ==
  /\ local' = S.local
  /\ remote' = S.remote
  /\ entries' = S.entries
  /\ tombstones' = S.tombstones
  /\ conflicts' = S.conflicts
  /\ stats' = S.stats
  /\ ops' = S.ops

Handled(S) ==
  Append(handled,
         [path |-> all_paths[idx],
          act |-> Decide(all_paths[idx], local_map, remote_map, entry_map,
                         tombstone_map),
          ok |-> ~S.err,
          net |-> \E i \in 1..Len(S.ops) : S.ops[i].k \in NetworkWrites])

\* One iteration of the loop whose body returns Ok(()).
SyncPathOk ==
  /\ pc = "run"
  /\ idx <= Len(all_paths)
  /\ \E c \in {b \in BodyChoices : b[2] = 0} :
       \E S \in {Body(c[1], c[2])} :
          /\ ~S.err
          /\ Install(S)
          /\ logs' = S.logs
          /\ handled' = Handled(S)
  /\ idx' = idx + 1
  /\ UNCHANGED <<now, pc, local_map, remote_map, entry_map, tombstone_map,
                 all_paths, fails, ext, passes, walk_errors, quiet>>
  /\ UNCHANGED <<runner_vars, lib_vars>>

\* the row log_db(Error, "sync", ...) appends for the path that failed
ErrorRow == [level |-> "error", event |-> "sync", path |-> all_paths[idx],
             created_at_ms |-> now]

\* One iteration whose body returns Err: the error is logged and the loop
\* goes on.
SyncPathErr ==
  /\ pc = "run"
  /\ idx <= Len(all_paths)
  /\ \E c \in BodyChoices :
       \E S \in {Body(c[1], c[2])} :
          /\ S.err
          /\ Install(S)
          /\ logs' = Append(S.logs, ErrorRow)
          /\ handled' = Handled(S)
  /\ idx' = idx + 1
  /\ fails' = fails + 1
  /\ UNCHANGED <<now, pc, local_map, remote_map, entry_map, tombstone_map,
                 all_paths, ext, passes, walk_errors, quiet>>
  /\ UNCHANGED <<runner_vars, lib_vars>>

\* One iteration whose body returns Err and the error row cannot be written:
\* log_db(...)? makes sync_once return Err.
SyncPathErrLogFails ==
  /\ pc = "run"
  /\ idx <= Len(all_paths)
  /\ \E c \in BodyChoices :
       \E S \in {Body(c[1], c[2])} :
          /\ S.err
          /\ Install(S)
          /\ logs' = S.logs
          /\ handled' = Handled(S)
  /\ pc' = "failed"
  /\ quiet' = 0
  /\ fails' = fails + 1
  /\ UNCHANGED <<now, idx, local_map, remote_map, entry_map, tombstone_map,
                 all_paths, ext, passes, walk_errors>>
  /\ UNCHANGED <<runner_vars, lib_vars>>

\* The loop is over: sync_once returns Ok(stats).
Return ==
  /\ pc = "run"
  /\ idx > Len(all_paths)
  /\ pc' = "done"
  /\ quiet' = IF walk_errors = 0 /\ \A i \in 1..Len(handled) : handled[i].ok
              THEN MinOf(quiet + 1, 2) ELSE 0
  /\ UNCHANGED <<local, remote, journal_vars, now, local_map, remote_map, entry_map,
                 tombstone_map, all_paths, idx, stats, ops, handled, fails, ext,
                 passes, walk_errors>>
  /\ UNCHANGED <<runner_vars, lib_vars>>

Next ==
  \/ LocalWrite
  \/ LocalDelete
  \/ RemoteSyncUpload
  \/ RemotePlainUpload
  \/ RemoteMarkDeleted
  \/ RemoteRemove
  \/ PassBegin
  \/ PassBeginFails
  \/ PassBeginWalkError
  \/ SyncPathOk
  \/ SyncPathErr
  \/ SyncPathErrLogFails
  \/ Return

Spec == Init /\ [][Next]_vars

(* ------------------------------ claims -------------------------------- *)
\* a loop iteration has just been taken; Item is what it handled
Iter == Len(handled') = Len(handled) + 1

Item == handled'[Len(handled')]

OpsOn(calls, path, kinds) ==
  {i \in 1..Len(calls) : calls[i].path = path /\ calls[i].k \in kinds}

LocalWrites == {"fs_write", "fs_copy", "set_local_mtime", "remove_local_file"}

Transfers == {"upload_local", "upload_new_local", "download_remote",
              "download_new_remote"}

SomeHandled(act, ok) ==
  \E i \in 1..Len(handled) : handled[i].act = act /\ handled[i].ok = ok

\* C1  No silent overwrite on divergence: the iteration that handles a path
\* as a conflict leaves the original local file, the original remote file
\* and the journal entry of the path as they were and sends no upload or
\* metadata patch to the original URI; when it succeeds it inserts exactly
\* one conflict row (original_relpath = p, reason "both_modified") and the
\* conflict copy exists on both sides with the local content.
C1_NoSilentOverwrite ==
  [][(Iter /\ Item.act = "handle_conflict") =>
       LET p == Item.path
           cp == ConflictRelpath(p, now)
       IN /\ p \in DOMAIN local' /\ local'[p] = local[p]
          /\ p \in DOMAIN remote' /\ remote'[p] = remote[p]
          /\ p \in DOMAIN entries' /\ entries'[p] = entries[p]
          /\ OpsOn(ops', p, NetworkWrites \cup LocalWrites) = {}
          /\ Item.ok =>
               /\ conflicts' = Append(conflicts,
                                      [original_relpath |-> p, conflict_relpath |-> cp,
                                       created_at_ms |-> now, reason |-> "both_modified"])
               /\ cp \in DOMAIN local' /\ local'[cp].content = local[p].content
               /\ cp \in DOMAIN remote' /\ remote'[cp].content = local[p].content
          /\ Len(conflicts') <= Len(conflicts) + 1]_vars

C1_Witness == SomeHandled("handle_conflict", TRUE)

\* the snapshot of path p the pass decides on
HasL(p) == p \in DOMAIN local_map

HasR(p) == p \in DOMAIN remote_map

HasE(p) == p \in DOMAIN entry_map

HasT(p) == p \in DOMAIN tombstone_map

Marked(p) == HasR(p) /\ remote_map[p].deleted_at_ms # {}

LChanged(p) ==
  HasL(p) /\ (HasE(p) =>
                \/ local_map[p].sha256 # entry_map[p].last_local_sha256
                \/ local_map[p].mtime_ms # entry_map[p].last_local_mtime_ms)

RChanged(p) ==
  HasR(p) /\ (HasE(p) =>
                \/ remote_map[p].sha256 # entry_map[p].last_remote_sha256
                \/ remote_map[p].mtime_ms # entry_map[p].last_remote_mtime_ms)

\* no observation of p is fresher than its tombstone
Stale(p) ==
  /\ HasT(p)
  /\ HasL(p) => local_map[p].mtime_ms <= tombstone_map[p].deleted_at_ms
  /\ HasR(p) => remote_map[p].mtime_ms <= tombstone_map[p].deleted_at_ms

\* C2  Tombstone respected: a path that has a tombstone at the start of the
\* pass, and neither a local file nor a remote record with mtime_ms greater
\* than the tombstone's deleted_at_ms, is neither uploaded nor downloaded by
\* the pass.
C2_TombstoneRespected ==
  \A i \in 1..Len(handled) :
    Stale(handled[i].path) => handled[i].act \notin Transfers

\* the state after two passes in a row that had no failing action, with no
\* external mutation since the first of them began
AfterSecondQuietPass == pc = "done" /\ quiet >= 2

LocalHash(p) == Sha(local[p].content)

RemoteHash(p) == RemoteInfo(p, remote[p]).sha256

\* C3 as stated  Convergence: after the second of two passes with no
\* external mutation in between, every path present on both sides has equal
\* local and remote hashes and an entry with last_local_sha256 equal to
\* last_remote_sha256.
C3_ConvergenceAllPaths ==
  AfterSecondQuietPass =>
    \A p \in (DOMAIN local) \cap (DOMAIN remote) :
      /\ LocalHash(p) = RemoteHash(p)
      /\ p \in DOMAIN entries
      /\ entries[p].last_local_sha256 = entries[p].last_remote_sha256

\* C3 amended  Convergence of every path that the second pass does not
\* handle as a conflict (and that is in the pass's path list): after the
\* second pass its local and remote hashes are equal, and its entry has
\* last_local_sha256 equal to last_remote_sha256.
C3_ConvergenceUnlessConflict ==
  AfterSecondQuietPass =>
    \A i \in 1..Len(handled) :
      LET p == handled[i].path
      IN (handled[i].act # "handle_conflict" /\ p \in DOMAIN local
            /\ p \in DOMAIN remote) =>
           /\ LocalHash(p) = RemoteHash(p)
           /\ p \in DOMAIN entries
           /\ entries[p].last_local_sha256 = entries[p].last_remote_sha256

C3_Witness ==
  /\ AfterSecondQuietPass
  /\ \E i \in 1..Len(handled) :
       /\ handled[i].act = "upload_local"
       /\ handled[i].path \in (DOMAIN local) \cap (DOMAIN remote)

\* C4  Idempotence: the second of two passes with no external mutation in
\* between sends no network write.
C4_SecondPassWritesNothing ==
  AfterSecondQuietPass => \A i \in 1..Len(handled) : ~handled[i].net

\* C5  Journal entry invariant: every entry row whose state is "ok" has
\* last_local_sha256 equal to last_remote_sha256.
C5_EntryHashesAgree ==
  \A p \in DOMAIN entries :
    entries[p].state = "ok" => entries[p].last_local_sha256 = entries[p].last_remote_sha256

C5_Witness ==
  /\ SomeHandled("download_remote", TRUE)
  /\ \E p \in DOMAIN entries : entries[p].state = "ok" /\ entries[p].last_local_sha256 # <<>>
  /\ fails > 0

\* the decision table of the specification, first matching row wins
TableDecision(p) ==
  CASE Marked(p) -> "remote_deleted"
    [] ~Marked(p) /\ ~HasL(p) /\ HasE(p) /\ ~HasT(p) /\ HasR(p) -> "set_remote_deleted"
    [] OTHER ->
         IF HasL(p) /\ HasR(p) /\ HasE(p) /\ LChanged(p) /\ RChanged(p)
              /\ local_map[p].sha256 # remote_map[p].sha256
           THEN "handle_conflict"
         ELSE IF HasL(p) /\ HasR(p) /\ LChanged(p)
                   /\ (~RChanged(p) \/ ~HasE(p)
                         \/ local_map[p].mtime_ms >= remote_map[p].mtime_ms)
           THEN "upload_local"
         ELSE IF HasL(p) /\ HasR(p) /\ RChanged(p) THEN "download_remote"
         ELSE IF HasL(p) /\ ~HasR(p) THEN "upload_new_local"
         ELSE IF ~HasL(p) /\ HasR(p) THEN "download_new_remote"
         ELSE "none"

\* C6  The branch the loop takes for a path is the first matching row of
\* the decision table, for every path of every pass.
C6_DecisionIsTable ==
  \A i \in 1..Len(handled) : handled[i].act = TableDecision(handled[i].path)

C6_Witness ==
  \E i \in 1..Len(handled) :
    LET p == handled[i].path
    IN /\ handled[i].act = "upload_local"
       /\ HasE(p) /\ LChanged(p) /\ RChanged(p)
       /\ local_map[p].mtime_ms = remote_map[p].mtime_ms

\* both sides changed against the entry and their hashes agree
TieOnEqualHashes(p) ==
  /\ HasL(p) /\ HasR(p) /\ HasE(p) /\ ~Marked(p)
  /\ LChanged(p) /\ RChanged(p)
  /\ local_map[p].sha256 = remote_map[p].sha256

FirstOp(calls, kinds) ==
  LET hits == {i \in 1..Len(calls) : calls[i].k \in kinds}
  IN IF hits = {} THEN 0 ELSE CHOOSE i \in hits : \A j \in hits : i <= j

\* C8  Local delete propagation: the iteration for a path with L absent,
\* E present, T absent and R present unmarked patches sync_deleted_at_ms = t
\* and only after that patch succeeded inserts the tombstone (origin
\* "local", the same t); the remote file stays, nothing is downloaded, and
\* a failed patch leaves the tombstones alone.
C8_LocalDeletePropagates ==
  [][(Iter /\ Item.act = "set_remote_deleted") =>
       LET p == Item.path
           patch == FirstOp(ops', {"patch_metadata"})
           tomb == FirstOp(ops', {"insert_tombstone"})
       IN /\ patch = 1 /\ ops'[1].path = p
          /\ p \in DOMAIN remote' /\ remote'[p].content = remote[p].content
          /\ local' = local
          /\ FirstOp(ops', {"download_file", "fs_write", "put_content"}) = 0
          /\ ~ops'[1].ok => (remote' = remote /\ tombstones' = tombstones)
          /\ tomb # 0 => (tomb > patch /\ ops'[patch].ok)
          /\ (tomb # 0 /\ ops'[tomb].ok) =>
               /\ p \in DOMAIN tombstones'
               /\ tombstones'[p].origin = "local"
               /\ ParseI64(remote'[p].meta[META_DELETED_AT]) = {tombstones'[p].deleted_at_ms}
          /\ Item.ok => p \in DOMAIN tombstones']_vars

C8_Witness ==
  /\ SomeHandled("set_remote_deleted", TRUE)
  /\ pc = "run"
  /\ \E p \in DOMAIN tombstones : tombstones[p].origin = "local"

\* C9  Remote soft-delete propagation: the iteration for a path whose remote
\* record carries sync_deleted_at_ms removes the local file, inserts a
\* tombstone (origin "remote", deleted_at_ms = R.deleted_at_ms) only when
\* the path has none, keeps an existing tombstone as it is, and makes no
\* upload, download or metadata patch.
C9_RemoteDeletePropagates ==
  [][(Iter /\ Item.act = "remote_deleted") =>
       LET p == Item.path
       IN /\ (Item.ok /\ p \in DOMAIN local_map) => p \notin DOMAIN local'
          /\ p \notin DOMAIN local_map => local' = local
          /\ p \in DOMAIN tombstones => tombstones' = tombstones
          /\ (p \notin DOMAIN tombstones /\ Item.ok) =>
               /\ p \in DOMAIN tombstones'
               /\ tombstones'[p].origin = "remote"
               /\ {tombstones'[p].deleted_at_ms} = remote_map[p].deleted_at_ms
          /\ FirstOp(ops', NetworkWrites \cup {"download_file", "fs_write"}) = 0
          /\ remote' = remote
          /\ entries' = entries]_vars

C9_Witness ==
  /\ pc = "run"
  /\ \E i \in 1..Len(handled) :
       /\ handled[i].act = "remote_deleted" /\ handled[i].ok
       /\ HasL(handled[i].path) /\ HasT(handled[i].path)
       /\ tombstone_map[handled[i].path].origin = "local"

\* C10  Failure isolation: a pass in which the action of a path failed has
\* an error-level log row for that path and handles every path of its list
\* before sync_once returns.
C10_FailureIsolated ==
  (pc \in {"done", "failed"} /\ all_paths # <<>>) =>
    /\ Len(handled) = Len(all_paths)
    /\ \A i \in 1..Len(handled) :
         ~handled[i].ok =>
           \E j \in 1..Len(logs) : logs[j].level = "error" /\ logs[j].path = handled[i].path

\* C11  No pass on a partial local view: a pass whose local scan met an
\* I/O error executes no action: nothing is handled by an upload, download,
\* delete, metadata patch, tombstone insert or entry upsert.
C11_NoPassOnPartialView ==
  walk_errors > 0 => \A i \in 1..Len(handled) : handled[i].act = "none"

\* C12  Deterministic ordering: the path list of a pass is the strictly
\* ascending (byte-wise lexicographic) sequence of the union of the local,
\* remote and entry snapshot keys, so it is fixed by the snapshots and has
\* every path once; the loop handles the paths in that order, one handled
\* item per position.
C12_AscendingOrder ==
  /\ \A i \in 1..(Len(all_paths) - 1) : LexLess(all_paths[i], all_paths[i + 1])
  /\ {all_paths[i] : i \in 1..Len(all_paths)}
       = (DOMAIN local_map) \cup (DOMAIN remote_map) \cup (DOMAIN entry_map)
  /\ Len(handled) <= Len(all_paths)
  /\ \A i \in 1..Len(handled) : handled[i].path = all_paths[i]
  /\ pc = "run" => Len(handled) = idx - 1
  /\ pc = "done" => Len(handled) = Len(all_paths)

C12_Witness ==
  /\ pc = "done"
  /\ Len(handled) >= 2
  /\ \E i \in 1..Len(handled) : handled[i].path \notin DOMAIN remote_map
  /\ \E i \in 1..Len(handled) : handled[i].path \notin DOMAIN local_map

\* C15  Upload commit order: in the iteration of an upload action (new file
\* or update) upsert_entry is called only after the content upload (put or
\* completed session) and the sync-metadata patch have both returned Ok, an
\* iteration without that call leaves the journal entries alone, and after a
\* successful upload the entry of the path has both mtimes = L.mtime_ms, both
\* hashes = L.hash and state "ok".
C15_UploadCommitOrder ==
  [][(Iter /\ Item.act \in {"upload_new_local", "upload_local"}) =>
       LET p == Item.path
           L == local_map[p]
           ups == FirstOp(ops', {"upsert_entry"})
       IN /\ ups = 0 => entries' = entries
          /\ ups # 0 =>
               /\ \E i \in 1..(ups - 1) :
                    ops'[i].k \in {"put_content", "session_done"} /\ ops'[i].ok
               /\ \E i \in 1..(ups - 1) :
                    /\ ops'[i].k = "patch_metadata" /\ ops'[i].ok /\ ops'[i].path = p
                    /\ \E j \in 1..(i - 1) :
                         ops'[j].k \in {"put_content", "session_done"} /\ ops'[j].ok
               /\ \A i \in 1..(ups - 1) :
                    ops'[i].ok \/ ops'[i].k = "put_content_40049"
               /\ ops'[ups].path = p
          /\ Item.ok =>
               /\ ups # 0 /\ ops'[ups].ok
               /\ p \in DOMAIN entries'
               /\ entries'[p].last_local_mtime_ms = L.mtime_ms
               /\ entries'[p].last_remote_mtime_ms = L.mtime_ms
               /\ entries'[p].last_local_sha256 = L.sha256
               /\ entries'[p].last_remote_sha256 = L.sha256
               /\ entries'[p].state = "ok"]_vars

\* both upload actions have succeeded in a pass, one of them through an
\* upload session
C15_Witness ==
  /\ SomeHandled("upload_new_local", TRUE)
  /\ SomeHandled("upload_local", TRUE)
  /\ \E i \in 1..Len(ops) : ops[i].k = "session_done" /\ ops[i].ok
  /\ \E i \in 1..Len(ops) : ops[i].k = "upsert_entry" /\ ops[i].ok

(* ------------------------- upload_content alone ------------------------ *)
\* upload_content applied to one local file of every length 0..MaxLen, with
\* every answer of the service and every failing call.
UploadInit ==
  /\ \E len \in 0..MaxLen, m \in Times :
       local = Put(EmptyMap, PathA, [content |-> len, mtime |-> m])
  /\ remote = EmptyMap
  /\ entries = EmptyMap
  /\ tombstones = EmptyMap
  /\ conflicts = <<>>
  /\ logs = <<>>
  /\ now = MaxTime
  /\ pc = "idle"
  /\ local_map = EmptyMap
  /\ remote_map = EmptyMap
  /\ entry_map = EmptyMap
  /\ tombstone_map = EmptyMap
  /\ all_paths = <<>>
  /\ idx = 1
  /\ stats = ZeroStats
  /\ ops = <<>>
  /\ handled = <<>>
  /\ fails = 0
  /\ ext = 0
  /\ passes = 0
  /\ walk_errors = 0
  /\ quiet = 0
  /\ AppInit
  /\ LibInit

UploadContent ==
  /\ pc = "idle"
  /\ \E v \in AllUploadVariants, with_stats \in BOOLEAN :
       LET calls == upload_content(PathA, ReadContent(local, PathA), with_stats, v)
       IN \E fail \in FailPoints(calls) :
            \E S \in {Run(calls, 1, Current, fail, now)} :
               /\ Install(S)
               /\ pc' = IF S.err THEN "returned_err" ELSE "returned_ok"
  /\ UNCHANGED <<logs, now, local_map, remote_map, entry_map, tombstone_map,
                 all_paths, idx, handled, fails, ext, passes, walk_errors, quiet>>
  /\ UNCHANGED <<runner_vars, lib_vars>>

UploadSpec == UploadInit /\ [][UploadContent]_vars

SessionStarted == \E i \in 1..Len(ops) : ops[i].k = "create_upload_session"

PutFailedWith(kind) ==
  /\ ops # <<>>
  /\ ops[1].k \in {"put_content_40049", "put_content_err"}
  /\ ops[1].call.err.cloudreve
  /\ from_u32(ops[1].call.err.code) = kind

\* C13: upload_content starts an upload session if and only if the
\* whole-file put_content failed with the FileTooLarge kind (service code
\* 40049); then it returns Ok exactly when the session upload succeeds; any
\* other put_content failure is returned as an error with no session created.
C13_SessionIffFileTooLarge ==
  pc \in {"returned_ok", "returned_err"} =>
    /\ SessionStarted <=> PutFailedWith("FileTooLarge")
    /\ SessionStarted =>
         (pc = "returned_ok" <=> \A i \in 2..Len(ops) : ops[i].ok)
    /\ (~ops[1].ok /\ ~PutFailedWith("FileTooLarge")) =>
         (pc = "returned_err" /\ ~SessionStarted)

\* the upload_chunk calls made, in order
Chunks == SelectSeq(ops, LAMBDA o : o.k = "upload_chunk")

SessionCall == ops[CHOOSE i \in 1..Len(ops) : ops[i].k = "create_upload_session"].call

CeilDiv(a, b) == (a + b - 1) \div b

\* C14: for every content length and every returned chunk size (0 replaced
\* by max(len, 1)) the session is created with size = len; the chunks go out
\* in order with indices 0, 1, ..; they are contiguous from offset 0,
\* non-empty and at most chunk_size long; a completed upload sent
\* ceil(len / chunk_size) chunks that cover the content; a failed chunk is the
\* last call made.
C14_ChunkSequence ==
  (pc \in {"returned_ok", "returned_err"} /\ SessionStarted) =>
    LET len == Size(local[PathA].content)
        cs == IF SessionCall.chunk_size = 0 THEN MaxOf(len, 1)
              ELSE SessionCall.chunk_size
        n == Len(Chunks)
    IN /\ SessionCall.size = len
       /\ \A i \in 1..n :
            /\ Chunks[i].call.index = i - 1
            /\ Chunks[i].call.from = (IF i = 1 THEN 0 ELSE Chunks[i - 1].call.to)
            /\ Chunks[i].call.from < Chunks[i].call.to
            /\ Chunks[i].call.to - Chunks[i].call.from <= cs
            /\ Chunks[i].call.to <= len
            /\ i < n => Chunks[i].ok
       /\ n <= CeilDiv(len, cs)
       /\ \A i \in 1..Len(ops) : ~ops[i].ok /\ i > 1 => i = Len(ops)
       /\ pc = "returned_ok" =>
            /\ n = CeilDiv(len, cs)
            /\ n > 0 => Chunks[n].call.to = len
            /\ len > 0 => remote[PathA].content = local[PathA].content

\* a completed session of several chunks whose last chunk is the short one
C14_Witness ==
  /\ pc = "returned_ok"
  /\ SessionStarted
  /\ Len(Chunks) >= 2
  /\ Chunks[Len(Chunks)].call.to - Chunks[Len(Chunks)].call.from
       < Chunks[1].call.to - Chunks[1].call.from
  /\ SessionCall.size = MaxLen - 1

\* a session whose returned chunk size is 0, and one over empty content
C14_WitnessZero ==
  /\ pc = "returned_ok"
  /\ SessionStarted
  /\ SessionCall.chunk_size = 0
  /\ Len(Chunks) = 1

(* ------------------------- downloads and mtimes ------------------------ *)
\* sync_mtime_ms values another writer can have left in the remote metadata
RemoteMtimes == {-1000, -1, 0, 1, 1001}

\* sync_once returns Err at the scan: a local file has an mtime before the
\* epoch.
PassBeginScanFails ==
  /\ pc # "run"
  /\ passes < MaxPasses
  /\ scan_local_fails(local)
  /\ passes' = passes + 1
  /\ pc' = "failed"
  /\ local_map' = EmptyMap
  /\ remote_map' = EmptyMap
  /\ entry_map' = EmptyMap
  /\ tombstone_map' = EmptyMap
  /\ all_paths' = <<>>
  /\ idx' = 1
  /\ stats' = ZeroStats
  /\ ops' = <<>>
  /\ handled' = <<>>
  /\ logs' = <<>>
  /\ quiet' = 0
  /\ now' = now + 1
  /\ walk_errors' = 0
  /\ UNCHANGED <<local, remote, entries, tombstones, conflicts, fails, ext>>
  /\ UNCHANGED <<runner_vars, lib_vars>>

\* A remote file tagged by another installation with any of RemoteMtimes,
\* and locally either nothing (download_new_remote) or the synced previous
\* version (download_remote).
DownloadInit ==
  /\ \E m \in RemoteMtimes, c \in Contents :
       remote = Put(EmptyMap, PathA,
                    [content |-> c, updated_at |-> MaxTime,
                     meta |-> [key \in {META_DEVICE_ID, META_MTIME, META_SHA256}
                                 |-> CASE key = META_DEVICE_ID -> OtherDeviceId
                                       [] key = META_MTIME -> I64ToString(m)
                                       [] OTHER -> Sha(c)]])
  /\ \/ local = EmptyMap /\ entries = EmptyMap
     \/ \E c \in Contents, m \in Times :
          /\ local = Put(EmptyMap, PathA, [content |-> c, mtime |-> m])
          /\ entries = Put(EmptyMap, PathA, EntryRow(PathA, m, Sha(c), MaxTime))
  /\ tombstones = EmptyMap
  /\ conflicts = <<>>
  /\ logs = <<>>
  /\ now = MaxTime
  /\ pc = "idle"
  /\ local_map = EmptyMap
  /\ remote_map = EmptyMap
  /\ entry_map = EmptyMap
  /\ tombstone_map = EmptyMap
  /\ all_paths = <<>>
  /\ idx = 1
  /\ stats = ZeroStats
  /\ ops = <<>>
  /\ handled = <<>>
  /\ fails = 0
  /\ ext = 0
  /\ passes = 0
  /\ walk_errors = 0
  /\ quiet = 0
  /\ AppInit
  /\ LibInit

DownloadNext ==
  \/ PassBegin
  \/ PassBeginScanFails
  \/ SyncPathOk
  \/ SyncPathErr
  \/ SyncPathErrLogFails
  \/ Return

DownloadSpec == DownloadInit /\ [][DownloadNext]_vars

\* C16  Download postcondition: after an iteration that downloaded a path
\* successfully the local file holds the remote bytes, the next local scan
\* succeeds and reports R.mtime_ms for it, the journal entry has both mtimes
\* = R.mtime_ms, both hashes = R.hash and state "ok", and upsert_entry was
\* called only after fs_write and set_local_mtime returned Ok.
C16_DownloadPostcondition ==
  [][(Iter /\ Item.act \in {"download_new_remote", "download_remote"}) =>
       LET p == Item.path
           R == remote_map[p]
           ups == FirstOp(ops', {"upsert_entry"})
           wr == FirstOp(ops', {"fs_write"})
           mt == FirstOp(ops', {"set_local_mtime"})
       IN /\ ups = 0 => entries' = entries
          /\ ups # 0 => /\ wr # 0 /\ wr < mt /\ mt < ups
                        /\ ops'[wr].ok /\ ops'[mt].ok
          /\ Item.ok =>
               /\ p \in DOMAIN local'
               /\ local'[p].content = remote[p].content
               /\ ~scan_local_fails(local')
               /\ scan_local(local')[p].mtime_ms = R.mtime_ms
               /\ p \in DOMAIN entries'
               /\ entries'[p].last_local_mtime_ms = R.mtime_ms
               /\ entries'[p].last_remote_mtime_ms = R.mtime_ms
               /\ entries'[p].last_local_sha256 = R.sha256
               /\ entries'[p].last_remote_sha256 = R.sha256
               /\ entries'[p].state = "ok"]_vars

(* ------------------------------- runners ------------------------------- *)
\* worker threads run_sync_command may spawn in one behaviour
MaxWorkers == 2

\* clicks on the tray "sync" item
MaxClicks == 1

\* calls of delete_task_command
MaxDeletes == 1

\* database or token failures the environment injects
MaxRunFail == 1

\* log rows of one task that are told apart
MaxLogRows == 1

sync_vars == <<local, remote, entries, tombstones, conflicts, logs, now, pc, local_map,
               remote_map, entry_map, tombstone_map, all_paths, idx, stats, ops,
               handled, fails, ext, passes, walk_errors, quiet>>

\* list_tasks returns the task rows in one fixed order
TaskOrder == <<"t1", "t2">>

list_tasks(d) == SelectSeq(TaskOrder, LAMBDA t : t \in d.tasks)

\* load_task_settings returns Ok: the row of the task is found
load_task_settings(d, t) == t \in d.tasks

\* log_error: one INSERT INTO logs; a database that cannot be opened or an
\* INSERT that fails is ignored. The rows of a task are counted up to
\* MaxLogRows ("MaxLogRows or more").
log_error(d, t, written) ==
  IF written THEN [d EXCEPT !.logs[t] = MinOf(@ + 1, MaxLogRows)] ELSE d

\* upsert_entry of a pass in flight: (task_id, local_relpath) is the key
pass_upsert(d, t) == [d EXCEPT !.entries = @ \cup {t}]

MayFail == used.fails < MaxRunFail

Spend(spend) == IF spend THEN [used EXCEPT !.fails = @ + 1] ELSE used

\* the ways load_task_settings / run_sync_once return Err: the task row is
\* gone (the database is reachable, the error row is written), or an
\* injected failure (journal unreachable, token load, scan, listing) after
\* which the error row is written or not
FailOutcomes(t) ==
  (IF load_task_settings(db, t) THEN {} ELSE {[written |-> TRUE, spend |-> FALSE]})
    \cup (IF MayFail THEN {[written |-> b, spend |-> TRUE] : b \in BOOLEAN} ELSE {})

\* (variant: the loop never looks at the stop flag)
loop_head_ignores_stop(stop) == "load"

\* the head of the worker loop: `if stop.load(SeqCst) { break; }`
loop_head(stop) == IF stop THEN "exit" ELSE "load"

\* after Err(err) the loop body goes on to thread::sleep
after_failed_pass == "sleep"

\* run_sync_command: under the runners lock, return if the task has a
\* handle; otherwise spawn the worker and register its stop flag.
run_sync_command(t) ==
  /\ IF t \in DOMAIN runners
     THEN UNCHANGED <<runners, workers>>
     ELSE /\ Len(workers) < MaxWorkers
          /\ workers' = Append(workers, [task |-> t, stop |-> FALSE,
                                         pc |-> "spawned", failed |-> FALSE])
          /\ runners' = Put(runners, t, Len(workers) + 1)
  /\ UNCHANGED <<tray, deleting, db, used, sync_vars, lib_vars>>

\* the lock scope stop_sync_command and delete_task_command share: remove
\* the handle and store true into its flag
StopRunner(t) ==
  IF t \in DOMAIN runners
  THEN /\ runners' = Remove(runners, t)
       /\ workers' = [workers EXCEPT ![runners[t]].stop = TRUE]
  ELSE UNCHANGED <<runners, workers>>

stop_sync_command(t) ==
  /\ StopRunner(t)
  /\ UNCHANGED <<tray, deleting, db, used, sync_vars, lib_vars>>

\* delete_task_command up to Connection::open: the handle is removed and
\* the flag set; the command does not wait for the worker.
delete_task_command(t) ==
  /\ \A d \in deleting : d.step \in {0, 6}
  /\ used.deletes < MaxDeletes
  /\ used' = [used EXCEPT !.deletes = @ + 1]
  /\ StopRunner(t)
  /\ deleting' = {[task |-> t, step |-> 1]}
  /\ UNCHANGED <<tray, db, sync_vars, lib_vars>>

\* delete_task: five DELETE statements, each its own transaction
DeleteTables == <<"entries", "tombstones", "conflicts", "logs", "tasks">>

delete_rows(d, table, t) ==
  IF table = "logs" THEN [d EXCEPT !.logs[t] = 0]
  ELSE [d EXCEPT ![table] = @ \ {t}]

\* one statement of delete_task; after the fifth the command returns Ok
\* (step 6)
DeleteStatement ==
  /\ \E d \in deleting :
       /\ d.step \in 1..5
       /\ db' = delete_rows(db, DeleteTables[d.step], d.task)
       /\ deleting' = {[d EXCEPT !.step = @ + 1]}
  /\ UNCHANGED <<runners, workers, tray, used, sync_vars, lib_vars>>

\* Connection::open or a statement fails: the command returns Err (step 0)
\* with the earlier statements committed
DeleteFails ==
  /\ \E d \in deleting :
       /\ d.step \in 1..5
       /\ deleting' = {[d EXCEPT !.step = 0]}
  /\ MayFail
  /\ used' = Spend(TRUE)
  /\ UNCHANGED <<runners, workers, tray, db, sync_vars, lib_vars>>

\* the worker thread before its loop: load_task_settings, and on Err
\* log_error and return (the handle stays registered)
WorkerStart(w) ==
  /\ workers[w].pc = "spawned"
  /\ \/ /\ load_task_settings(db, workers[w].task)
        /\ workers' = [workers EXCEPT ![w].pc = "check"]
        /\ UNCHANGED <<db, used>>
     \/ \E o \in FailOutcomes(workers[w].task) :
          /\ db' = log_error(db, workers[w].task, o.written)
          /\ used' = Spend(o.spend)
          /\ workers' = [workers EXCEPT ![w].pc = "exit"]
  /\ UNCHANGED <<runners, tray, deleting, sync_vars, lib_vars>>

WorkerCheck(w) ==
  /\ workers[w].pc = "check"
  /\ workers' = [workers EXCEPT ![w].pc = loop_head(workers[w].stop)]
  /\ UNCHANGED <<runners, tray, deleting, db, used, sync_vars, lib_vars>>

\* run_sync_once up to SyncEngine::new: load_task_settings and load_tokens
WorkerLoad(w) ==
  /\ workers[w].pc = "load"
  /\ \/ /\ load_task_settings(db, workers[w].task)
        /\ workers' = [workers EXCEPT ![w].pc = "sync"]
        /\ UNCHANGED <<db, used>>
     \/ \E o \in FailOutcomes(workers[w].task) :
          /\ db' = log_error(db, workers[w].task, o.written)
          /\ used' = Spend(o.spend)
          /\ workers' = [workers EXCEPT ![w].pc = after_failed_pass,
                                        ![w].failed = TRUE]
  /\ UNCHANGED <<runners, tray, deleting, sync_vars, lib_vars>>

\* sync_once in flight writes a journal row of its task
WorkerWrite(w) ==
  /\ workers[w].pc = "sync"
  /\ db' = pass_upsert(db, workers[w].task)
  /\ UNCHANGED <<runners, workers, tray, deleting, used, sync_vars, lib_vars>>

\* sync_once returns Ok(stats)
WorkerPassOk(w) ==
  /\ workers[w].pc = "sync"
  /\ workers' = [workers EXCEPT ![w].pc = "sleep", ![w].failed = FALSE]
  /\ UNCHANGED <<runners, tray, deleting, db, used, sync_vars, lib_vars>>

\* sync_once returns Err: log_error, then the sleep
WorkerPassErr(w) ==
  /\ workers[w].pc = "sync"
  /\ MayFail
  /\ \E written \in BOOLEAN : db' = log_error(db, workers[w].task, written)
  /\ used' = Spend(TRUE)
  /\ workers' = [workers EXCEPT ![w].pc = after_failed_pass, ![w].failed = TRUE]
  /\ UNCHANGED <<runners, tray, deleting, sync_vars, lib_vars>>

\* thread::sleep(interval) is over
WorkerWake(w) ==
  /\ workers[w].pc = "sleep"
  /\ workers' = [workers EXCEPT ![w].pc = "check"]
  /\ UNCHANGED <<runners, tray, deleting, db, used, sync_vars, lib_vars>>

WorkerStep(w) ==
  /\ w \in DOMAIN workers
  /\ \/ WorkerStart(w)
     \/ WorkerCheck(w)
     \/ WorkerLoad(w)
     \/ WorkerWrite(w)
     \/ WorkerPassOk(w)
     \/ WorkerPassErr(w)
     \/ WorkerWake(w)

\* the tray "sync" item: a thread is spawned, whatever the runners hold
TrayClick ==
  /\ tray.pc = "idle"
  /\ used.clicks < MaxClicks
  /\ used' = [used EXCEPT !.clicks = @ + 1]
  /\ tray' = [pc |-> "spawned", todo |-> <<>>]
  /\ UNCHANGED <<runners, workers, deleting, db, sync_vars, lib_vars>>

TrayNext(todo) == [pc |-> IF todo = <<>> THEN "idle" ELSE "load", todo |-> todo]

\* Connection::open and list_tasks; on Err the thread ends
TrayList ==
  /\ tray.pc = "spawned"
  /\ \/ tray' = TrayNext(list_tasks(db)) /\ UNCHANGED used
     \/ MayFail /\ used' = Spend(TRUE) /\ tray' = TrayNext(<<>>)
  /\ UNCHANGED <<runners, workers, deleting, db, sync_vars, lib_vars>>

\* run_sync_once for the next task of the list, up to SyncEngine::new; an
\* Err is dropped and the loop goes on
TrayLoad ==
  /\ tray.pc = "load"
  /\ \/ /\ load_task_settings(db, Head(tray.todo))
        /\ tray' = [tray EXCEPT !.pc = "sync"]
        /\ UNCHANGED used
     \/ \E o \in FailOutcomes(Head(tray.todo)) :
          /\ used' = Spend(o.spend)
          /\ tray' = TrayNext(Tail(tray.todo))
  /\ UNCHANGED <<runners, workers, deleting, db, sync_vars, lib_vars>>

TrayWrite ==
  /\ tray.pc = "sync"
  /\ db' = pass_upsert(db, Head(tray.todo))
  /\ UNCHANGED <<runners, workers, tray, deleting, used, sync_vars, lib_vars>>

\* sync_once returns, Ok or Err
TrayPassEnd ==
  /\ tray.pc = "sync"
  /\ tray' = TrayNext(Tail(tray.todo))
  /\ UNCHANGED <<runners, workers, deleting, db, used, sync_vars, lib_vars>>

RunSync == \E t \in TaskIds : run_sync_command(t)

StopSync == \E t \in TaskIds : stop_sync_command(t)

DeleteTask == \E t \in TaskIds : delete_task_command(t)

Worker == \E w \in 1..MaxWorkers : WorkerStep(w)

RunnerNext ==
  \/ RunSync
  \/ StopSync
  \/ DeleteTask
  \/ DeleteStatement
  \/ DeleteFails
  \/ Worker
  \/ TrayClick
  \/ TrayList
  \/ TrayLoad
  \/ TrayWrite
  \/ TrayPassEnd

RunnerSpec == Init /\ [][RunnerNext]_vars

\* every spawned thread keeps running: the scheduler runs it, its sleep
\* ends and its pass returns
RunnerFairSpec ==
  RunnerSpec /\ \A w \in 1..MaxWorkers : WF_vars(WorkerStep(w))

\* sync_once executions of task t in flight
PassesInFlight(t) ==
  Cardinality({w \in DOMAIN workers : workers[w].task = t /\ workers[w].pc = "sync"})
    + (IF tray.pc = "sync" /\ Head(tray.todo) = t THEN 1 ELSE 0)

\* C17  One worker per task: at any time at most one sync_once of a task is
\* in flight, a registered handle belongs to a worker of that task whose
\* flag is not set, and no two workers of one task both have an unset flag
\* (run_sync_command on a registered task starts no second worker).
C17_OnePassPerTask ==
  /\ \A t \in TaskIds : PassesInFlight(t) <= 1
  /\ \A t \in DOMAIN runners :
       workers[runners[t]].task = t /\ ~workers[runners[t]].stop
  /\ \A v, w \in DOMAIN workers :
       (v # w /\ workers[v].task = workers[w].task) =>
         (workers[v].stop \/ workers[w].stop)

InPass(w) == w.pc \in {"load", "sync"}

\* worker w exists and its stop flag is set
Stopped(w) == IF w \in DOMAIN workers THEN workers[w].stop ELSE FALSE

\* worker w exists and is at pc
WorkerAt(w, at) == IF w \in DOMAIN workers THEN workers[w].pc = at ELSE FALSE

\* worker w sleeps after a failed pass
FailedAsleep(w) ==
  IF w \in DOMAIN workers THEN workers[w].pc = "sleep" /\ workers[w].failed ELSE FALSE

\* C18  Cooperative cancellation: a pass is started only from the head of
\* the loop with the flag read as false; a worker at the head of the loop
\* whose flag is set starts no pass; the flag is never cleared; a pass in
\* flight goes on to its end and the sleep whatever the flag; and a worker
\* whose flag is set eventually terminates.
C18_CooperativeCancel ==
  /\ [][\A w \in DOMAIN workers :
          /\ (~InPass(workers[w]) /\ InPass(workers'[w])) =>
               (workers[w].pc = "check" /\ ~workers[w].stop)
          /\ (workers[w].pc = "check" /\ workers[w].stop) =>
               workers'[w].pc \in {"check", "exit"}
          /\ workers[w].stop => workers'[w].stop
          /\ InPass(workers[w]) => workers'[w].pc \in {"load", "sync", "sleep"}
          /\ (workers[w].pc # "exit" /\ workers'[w].pc = "exit") =>
               workers[w].pc \in {"spawned", "check"}]_vars
  /\ \A w \in 1..MaxWorkers :
       Stopped(w) ~> WorkerAt(w, "exit")

\* the flag of a worker was set while its pass was in flight
C18_Witness ==
  \E w \in DOMAIN workers : workers[w].stop /\ workers[w].pc = "sync"

\* worker w has just returned from a run_sync_once that failed
PassFailed(w) ==
  /\ InPass(workers[w])
  /\ ~InPass(workers'[w])
  /\ workers'[w].failed

\* C19  A failing pass does not stop the runner: when run_sync_once returns
\* an error the worker writes an error log row of its task and goes to
\* sleep, and the sleep leads back to the head of the loop.
C19_FailedPassLogged ==
  [][\A w \in DOMAIN workers :
       /\ PassFailed(w) =>
            /\ db'.logs[workers[w].task] = MinOf(db.logs[workers[w].task] + 1, MaxLogRows)
            /\ workers'[w].pc = "sleep"
       /\ workers[w].pc = "sleep" => workers'[w].pc \in {"sleep", "check"}]_vars

\* after a failed pass the worker attempts another one unless its flag is set
C19_FailedPassRetried ==
  \A w \in 1..MaxWorkers :
    FailedAsleep(w) ~> (Stopped(w) \/ WorkerAt(w, "load"))

\* task t has a row in some table
HasRows(d, t) ==
  \/ t \in d.tasks \cup d.entries \cup d.tombstones \cup d.conflicts
  \/ d.logs[t] > 0

\* the rows of the tasks other than t
OtherRows(d, t) ==
  [tasks |-> d.tasks \ {t}, entries |-> d.entries \ {t},
   tombstones |-> d.tombstones \ {t}, conflicts |-> d.conflicts \ {t},
   logs |-> [u \in TaskIds \ {t} |-> d.logs[u]]]

\* C20  delete_task cascade: when delete_task(t) returns Ok no table holds a
\* row with task_id = t, and none of its statements changes a row of
\* another task.
C20_DeleteCascades ==
  [][\A d \in deleting : \A e \in deleting' :
       /\ (d.step \in 1..5 /\ e.step = d.step + 1) =>
            OtherRows(db', d.task) = OtherRows(db, d.task)
       /\ (d.step = 5 /\ e.step = 6) => ~HasRows(db', d.task)]_vars

(* ------------------------- atomicity of delete_task --------------------- *)
\* every table still holds the rows of task t that the database started with
\* (delete_task is the only call that removes a row)
RowsKept(d, t) ==
  t \in d.tasks /\ t \in d.entries /\ t \in d.tombstones /\ t \in d.conflicts

\* C21  Atomicity of delete_task(t): when the call returns an error no row
\* of t has been removed, and every state the call leaves for a reader on
\* another connection has either all the rows of t or none of them.
C21_DeleteTaskAtomic ==
  [][\A d \in deleting : \A e \in deleting' :
       /\ (d.step \in 1..5 /\ e.step = 0) => RowsKept(db', d.task)
       /\ (d.step \in 1..5 /\ e.step = d.step + 1) =>
            (RowsKept(db', d.task) \/ ~HasRows(db', d.task))]_vars

(* ----------------------- journal store: entries, tombstones ------------- *)
\* values a column takes: row version v has every non-key column set from v
MaxVersions == 2

\* an EntryRow as upsert_entry binds it to ?1..?10
StoredEntry(t, p, v) ==
  [task_id |-> t, local_relpath |-> p,
   cloud_file_id |-> <<102>> \o I64ToString(v),
   cloud_uri |-> <<117>> \o I64ToString(v),
   last_local_mtime_ms |-> v, last_local_sha256 |-> Sha(v),
   last_remote_mtime_ms |-> v + 1, last_remote_sha256 |-> Sha(v + 1),
   last_sync_ts_ms |-> v + 2,
   state |-> IF v = 1 THEN "ok" ELSE "conflict"]

\* a TombstoneRow as insert_tombstone binds it to ?1..?5
StoredTombstone(t, p, v) ==
  [task_id |-> t, local_relpath |-> p,
   cloud_file_id |-> <<102>> \o I64ToString(v),
   deleted_at_ms |-> v,
   origin |-> IF v = 1 THEN "local" ELSE "remote"]

\* the keys the calls are made with: two paths of one task, and one of them
\* in the other task
StoreKeys == {<<"t1", PathA>>, <<"t1", PathB>>, <<"t2", PathA>>}

EntryArgs == {StoredEntry(k[1], k[2], v) : k \in StoreKeys, v \in 1..MaxVersions}

TombstoneArgs == {StoredTombstone(k[1], k[2], v) : k \in StoreKeys, v \in 1..MaxVersions}

\* PRIMARY KEY (task_id, local_relpath) of entries and of tombstones
RowKey(r) == <<r.task_id, r.local_relpath>>

\* the rows of a table that have the key of row r
AtKey(rows, r) == {x \in rows : RowKey(x) = RowKey(r)}

\* (variant: INSERT OR IGNORE, a row whose key exists is left as it is)
upsert_entry_or_ignore(rows, entry) ==
  IF AtKey(rows, entry) # {} THEN rows ELSE rows \cup {entry}

\* upsert_entry: INSERT ... ON CONFLICT(task_id, local_relpath) DO UPDATE SET
\* the eight other columns from the excluded row
upsert_entry(rows, entry) ==
  IF AtKey(rows, entry) # {}
  THEN {IF RowKey(r) = RowKey(entry)
        THEN [r EXCEPT !.cloud_file_id = entry.cloud_file_id,
                       !.cloud_uri = entry.cloud_uri,
                       !.last_local_mtime_ms = entry.last_local_mtime_ms,
                       !.last_local_sha256 = entry.last_local_sha256,
                       !.last_remote_mtime_ms = entry.last_remote_mtime_ms,
                       !.last_remote_sha256 = entry.last_remote_sha256,
                       !.last_sync_ts_ms = entry.last_sync_ts_ms,
                       !.state = entry.state]
        ELSE r : r \in rows}
  ELSE rows \cup {entry}

\* insert_tombstone: INSERT ... ON CONFLICT(task_id, local_relpath) DO UPDATE
\* SET cloud_file_id, deleted_at_ms, origin from the excluded row
insert_tombstone(rows, tombstone) ==
  IF AtKey(rows, tombstone) # {}
  THEN {IF RowKey(r) = RowKey(tombstone)
        THEN [r EXCEPT !.cloud_file_id = tombstone.cloud_file_id,
                       !.deleted_at_ms = tombstone.deleted_at_ms,
                       !.origin = tombstone.origin]
        ELSE r : r \in rows}
  ELSE rows \cup {tombstone}

\* list_entries_by_task: SELECT ... FROM entries WHERE task_id = ?1
list_entries_by_task(rows, task_id) == {r \in rows : r.task_id = task_id}

\* list_tombstones: SELECT ... FROM tombstones WHERE task_id = ?1
list_tombstones(rows, task_id) == {r \in rows : r.task_id = task_id}

\* conn.execute(...)? returns Err (the statement changed nothing)
StoreErr(op, arg) ==
  /\ txn' = [op |-> op, arg |-> arg, ok |-> FALSE, had |-> {}, rows |-> {}]
  /\ store' = store

UpsertEntry ==
  /\ \E entry \in EntryArgs :
       \/ /\ store' = [store EXCEPT !.entries = upsert_entry(@, entry)]
          /\ txn' = [op |-> "upsert_entry", arg |-> entry, ok |-> TRUE,
                     had |-> AtKey(store.entries, entry), rows |-> {}]
       \/ StoreErr("upsert_entry", entry)
  /\ UNCHANGED <<sync_vars, runner_vars, net, uri, legacy>>

InsertTombstone ==
  /\ \E tombstone \in TombstoneArgs :
       \/ /\ store' = [store EXCEPT !.tombstones = insert_tombstone(@, tombstone)]
          /\ txn' = [op |-> "insert_tombstone", arg |-> tombstone, ok |-> TRUE,
                     had |-> AtKey(store.tombstones, tombstone), rows |-> {}]
       \/ StoreErr("insert_tombstone", tombstone)
  /\ UNCHANGED <<sync_vars, runner_vars, net, uri, legacy>>

ListEntries ==
  /\ \E t \in TaskIds :
       txn' = [op |-> "list_entries_by_task", arg |-> t, ok |-> TRUE, had |-> {},
               rows |-> list_entries_by_task(store.entries, t)]
  /\ UNCHANGED <<store, sync_vars, runner_vars, net, uri, legacy>>

ListTombstones ==
  /\ \E t \in TaskIds :
       txn' = [op |-> "list_tombstones", arg |-> t, ok |-> TRUE, had |-> {},
               rows |-> list_tombstones(store.tombstones, t)]
  /\ UNCHANGED <<store, sync_vars, runner_vars, net, uri, legacy>>

EntryNext ==
  \/ UpsertEntry
  \/ InsertTombstone
  \/ ListEntries
  \/ ListTombstones

EntrySpec == Init /\ [][EntryNext]_vars

\* the rows of a table whose key is not that of row r
OffKey(rows, r) == rows \ AtKey(rows, r)

OneRowPerKey(rows) == \A r \in rows : AtKey(rows, r) = {r}

\* C22  Entry and tombstone keys: each table has at most one row per
\* (task_id, local_relpath); a successful upsert_entry / insert_tombstone
\* leaves at its key exactly the row it was called with, leaves the rows of
\* the other keys and the other table as they were, and a failed one changes
\* nothing; list_entries_by_task(t) / list_tombstones(t) return exactly the
\* rows of their table whose task_id is t.
C22_EntryTombstoneKeys ==
  /\ [](OneRowPerKey(store.entries) /\ OneRowPerKey(store.tombstones))
  /\ [][/\ (txn'.op = "upsert_entry" /\ txn'.ok) =>
             /\ AtKey(store'.entries, txn'.arg) = {txn'.arg}
             /\ OffKey(store'.entries, txn'.arg) = OffKey(store.entries, txn'.arg)
             /\ store'.tombstones = store.tombstones
        /\ (txn'.op = "insert_tombstone" /\ txn'.ok) =>
             /\ AtKey(store'.tombstones, txn'.arg) = {txn'.arg}
             /\ OffKey(store'.tombstones, txn'.arg) = OffKey(store.tombstones, txn'.arg)
             /\ store'.entries = store.entries
        /\ (txn'.op \in {"upsert_entry", "insert_tombstone"} /\ ~txn'.ok) =>
             store' = store
        /\ txn'.op = "list_entries_by_task" =>
             /\ \A r \in store.entries : r \in txn'.rows <=> r.task_id = txn'.arg
             /\ txn'.rows \subseteq store.entries
        /\ txn'.op = "list_tombstones" =>
             /\ \A r \in store.tombstones : r \in txn'.rows <=> r.task_id = txn'.arg
             /\ txn'.rows \subseteq store.tombstones]_vars

\* an upsert_entry has replaced a row of its key that held other values,
\* while the same path of the other task and the other path of the same
\* task have rows and the key has a tombstone
C22_Witness ==
  /\ txn.op = "upsert_entry"
  /\ txn.ok
  /\ txn.had # {}
  /\ txn.had # {txn.arg}
  /\ Cardinality(store.entries) = 3
  /\ AtKey(store.tombstones, txn.arg) # {}

(* ------------------------- conflicts and their key ---------------------- *)
\* seconds the wall clock may advance while a pass is running
MaxTicks == 1

\* passes over the two paths in conflict
MaxConflictPasses == 2

\* a file another installation uploaded and tagged
TaggedRemote(c, m) ==
  [content |-> c, updated_at |-> MaxTime,
   meta |-> [key \in {META_DEVICE_ID, META_MTIME, META_SHA256}
               |-> CASE key = META_DEVICE_ID -> OtherDeviceId
                     [] key = META_MTIME -> I64ToString(m)
                     [] OTHER -> Sha(c)]]

\* Both paths were synced once (content 0) and have since been written on
\* both sides: locally by the user, remotely by another installation.
ConflictInit ==
  /\ \E ca, cb \in Contents :
       local = Put(Put(EmptyMap, PathA, [content |-> ca, mtime |-> 1]),
                   PathB, [content |-> cb, mtime |-> 1])
  /\ \E ca, cb \in Contents, m \in Times :
       remote = Put(Put(EmptyMap, PathA, TaggedRemote(ca, m)),
                    PathB, TaggedRemote(cb, m))
  /\ entries = Put(Put(EmptyMap, PathA, EntryRow(PathA, 0, Sha(0), MaxTime)),
                   PathB, EntryRow(PathB, 0, Sha(0), MaxTime))
  /\ tombstones = EmptyMap
  /\ conflicts = <<>>
  /\ logs = <<>>
  /\ now = MaxTime
  /\ pc = "idle"
  /\ local_map = EmptyMap
  /\ remote_map = EmptyMap
  /\ entry_map = EmptyMap
  /\ tombstone_map = EmptyMap
  /\ all_paths = <<>>
  /\ idx = 1
  /\ stats = ZeroStats
  /\ ops = <<>>
  /\ handled = <<>>
  /\ fails = 0
  /\ ext = 0
  /\ passes = 0
  /\ walk_errors = 0
  /\ quiet = 0
  /\ AppInit
  /\ LibInit

\* the wall clock reaches the next second while the loop is running
ClockTick ==
  /\ pc = "run"
  /\ now < MaxTime + passes + MaxTicks
  /\ now' = now + 1
  /\ UNCHANGED <<local, remote, journal_vars, pass_vars, ext, quiet>>
  /\ UNCHANGED <<runner_vars, lib_vars>>

\* delete_conflict: DELETE FROM conflicts WHERE task_id = ?1 AND
\* conflict_relpath = ?2 (the rows here are those of the one task)
delete_conflict(rows, conflict_relpath) ==
  SelectSeq(rows, LAMBDA r : r.conflict_relpath # conflict_relpath)

\* mark_conflict_resolved(task_id, conflict_relpath) of the command layer
MarkConflictResolved ==
  /\ \E i \in 1..Len(conflicts) :
       /\ conflicts' = delete_conflict(conflicts, conflicts[i].conflict_relpath)
       /\ txn' = [op |-> "delete_conflict", arg |-> conflicts[i].conflict_relpath]
  /\ UNCHANGED <<local, remote, entries, tombstones, logs, now, pass_vars, ext, quiet>>
  /\ UNCHANGED <<runner_vars, store, net, uri, legacy>>

\* sync_once up to the loop, at most MaxConflictPasses times
ConflictPassBegin == passes < MaxConflictPasses /\ PassBegin

ConflictNext ==
  \/ ConflictPassBegin
  \/ ClockTick
  \/ SyncPathOk
  \/ SyncPathErr
  \/ SyncPathErrLogFails
  \/ Return
  \/ MarkConflictResolved

ConflictSpec == ConflictInit /\ [][ConflictNext]_vars

\* C23  Conflict key: no two rows of the conflicts table have the same
\* conflict_relpath (so two original paths that conflict in one pass are
\* given different conflict_relpath values), and delete_conflict(t, c)
\* removes the rows whose conflict_relpath is c and leaves every other row
\* as it was, in its place.
C23_ConflictKey ==
  /\ [](\A i, j \in 1..Len(conflicts) :
          conflicts[i].conflict_relpath = conflicts[j].conflict_relpath => i = j)
  /\ [][(txn' # txn /\ txn'.op = "delete_conflict") =>
          /\ \A i \in 1..Len(conflicts') : conflicts'[i].conflict_relpath # txn'.arg
          /\ conflicts' = SelectSeq(conflicts,
                                    LAMBDA r : r.conflict_relpath # txn'.arg)]_vars

(* ----------------------------- journal store: logs ---------------------- *)
\* rows the logs table holds at most
MaxLogs == 3

\* LIMIT values asked for are 1..MaxLimit, OFFSET values 1..MaxOffset (a
\* query without offset starts at the first row)
MaxLimit == 2

MaxOffset == 1

\* LogLevel::as_str of the levels written
LogLevels == {"info", "error"}

\* a LogRow as insert_log binds it to ?1..?5
LogArgs ==
  {[task_id |-> t, level |-> l, event |-> "sync", detail |-> <<>>,
    created_at_ms |-> m] : t \in TaskIds, l \in LogLevels, m \in Times}

\* insert_log: INSERT INTO logs; the id column is AUTOINCREMENT
insert_log(tbl, log) == Append(tbl, log)

\* Option<T> as a set: {} is None, {v} is Some(v)
Unwrap(opt) == CHOOSE v \in opt : TRUE

\* the WHERE clause list_logs and count_logs build: one filter per given
\* argument, each naming the parameter it compares its column with
LogFilters(task_id, level) ==
  (IF task_id # {} THEN <<[column |-> "task_id", param |-> 1]>> ELSE <<>>)
    \o (IF level # {}
        THEN <<[column |-> "level", param |-> IF task_id # {} THEN 2 ELSE 1]>>
        ELSE <<>>)

\* params_vec after the filters have been pushed
LogParams(task_id, level) ==
  (IF task_id # {} THEN <<Unwrap(task_id)>> ELSE <<>>)
    \o (IF level # {} THEN <<Unwrap(level)>> ELSE <<>>)

\* the row numbers a WHERE clause selects: every filter holds (no filter:
\* no WHERE clause, every row)
Where(tbl, filters, params) ==
  {i \in 1..Len(tbl) :
     \A f \in 1..Len(filters) : tbl[i][filters[f].column] = params[filters[f].param]}

\* ORDER BY created_at_ms DESC over the selected rows: every sequence the
\* database may return (rows with equal created_at_ms come in any order)
RECURSIVE OrderByCreatedDesc(_, _)
OrderByCreatedDesc(tbl, S) ==
  IF S = {} THEN {<<>>}
  ELSE UNION {{<<tbl[i]>> \o rest : rest \in OrderByCreatedDesc(tbl, S \ {i})} :
                i \in {j \in S : \A k \in S :
                                   tbl[j].created_at_ms >= tbl[k].created_at_ms}}

\* LIMIT ?n OFFSET ?m with the values bound to those parameters (0: the
\* clause is not in the statement; without LIMIT there is no OFFSET)
LimitOffset(sq, limit_param, offset_param, params) ==
  IF limit_param = 0 THEN sq
  ELSE LET skip == IF offset_param = 0 THEN 0 ELSE params[offset_param]
           take == MaxOf(0, MinOf(params[limit_param], Len(sq) - skip))
       IN [i \in 1..take |-> sq[skip + i]]

\* (variant: OFFSET is appended whether or not there is a LIMIT, and a
\* statement without LIMIT skips the offset rows)
list_logs_offset_alone(tbl, task_id, level, limit, offset) ==
  LET filters == LogFilters(task_id, level)
      params == LogParams(task_id, level)
      skip == IF offset = {} THEN 0 ELSE Unwrap(offset)
  IN {IF limit = {}
      THEN [i \in 1..MaxOf(0, Len(sq) - skip) |-> sq[skip + i]]
      ELSE [i \in 1..MaxOf(0, MinOf(Unwrap(limit), Len(sq) - skip)) |-> sq[skip + i]] :
        sq \in OrderByCreatedDesc(tbl, Where(tbl, filters, params))}

\* list_logs: the results the statement it builds may return
list_logs(tbl, task_id, level, limit, offset) ==
  LET filters == LogFilters(task_id, level)
      filter_params == LogParams(task_id, level)
      limit_param == IF limit # {} THEN Len(filter_params) + 1 ELSE 0
      with_limit == IF limit # {} THEN Append(filter_params, Unwrap(limit))
                    ELSE filter_params
      offset_param == IF limit # {} /\ offset # {} THEN Len(with_limit) + 1 ELSE 0
      params == IF limit # {} /\ offset # {} THEN Append(with_limit, Unwrap(offset))
                ELSE with_limit
  IN {LimitOffset(sq, limit_param, offset_param, params) :
        sq \in OrderByCreatedDesc(tbl, Where(tbl, filters, filter_params))}

\* count_logs: SELECT COUNT(1) with the same WHERE clause
count_logs(tbl, task_id, level) ==
  Cardinality(Where(tbl, LogFilters(task_id, level), LogParams(task_id, level)))

OptTasks == {{}} \cup {{t} : t \in TaskIds}

OptLevels == {{}} \cup {{l} : l \in LogLevels}

OptLimits == {{}} \cup {{l} : l \in 1..MaxLimit}

OptOffsets == {{}} \cup {{o} : o \in 1..MaxOffset}

InsertLog ==
  /\ Len(store.logs) < MaxLogs
  /\ \E log \in LogArgs :
       /\ store' = [store EXCEPT !.logs = insert_log(@, log)]
       /\ txn' = [op |-> "insert_log", arg |-> log]
  /\ UNCHANGED <<sync_vars, runner_vars, net, uri, legacy>>

ListLogs ==
  /\ \E task_id \in OptTasks, level \in OptLevels, limit \in OptLimits,
        offset \in OptOffsets :
       \E rows \in list_logs(store.logs, task_id, level, limit, offset) :
          txn' = [op |-> "list_logs", task_id |-> task_id, level |-> level,
                  limit |-> limit, offset |-> offset, rows |-> rows]
  /\ UNCHANGED <<store, sync_vars, runner_vars, net, uri, legacy>>

CountLogs ==
  /\ \E task_id \in OptTasks, level \in OptLevels :
       txn' = [op |-> "count_logs", task_id |-> task_id, level |-> level,
               count |-> count_logs(store.logs, task_id, level)]
  /\ UNCHANGED <<store, sync_vars, runner_vars, net, uri, legacy>>

LogNext ==
  \/ InsertLog
  \/ ListLogs
  \/ CountLogs

LogSpec == Init /\ [][LogNext]_vars

\* row r passes the filters that are given
Matches(r, task_id, level) ==
  /\ task_id # {} => r.task_id \in task_id
  /\ level # {} => r.level \in level

\* the number of places of sequence sq that hold value v
Occurrences(sq, v) == Cardinality({i \in 1..Len(sq) : sq[i] = v})

Descending(sq) ==
  \A i, j \in 1..Len(sq) : i < j => sq[i].created_at_ms >= sq[j].created_at_ms

\* sq is an ordering of the matching rows of the table, newest first
MatchingNewestFirst(sq, tbl, task_id, level) ==
  /\ Descending(sq)
  /\ \A i \in 1..Len(sq) : Matches(sq[i], task_id, level)
  /\ \A r \in LogArgs :
       Occurrences(sq, r) = IF Matches(r, task_id, level) THEN Occurrences(tbl, r)
                            ELSE 0

\* the orderings a query without LIMIT may return
FullOrderings(tbl, task_id, level) ==
  {sq \in UNION {[1..n -> {tbl[i] : i \in 1..Len(tbl)}] : n \in 0..Len(tbl)} :
     MatchingNewestFirst(sq, tbl, task_id, level)}

\* C24  Log queries: list_logs without limit returns the rows that match all
\* given filters, each once, newest first (an offset alone changes nothing);
\* with limit l and offset o (0 when none) it returns places o+1..o+l of
\* such an ordering; count_logs returns the number of matching rows.
C24_LogQueries ==
  /\ txn.op = "list_logs" =>
       IF txn.limit = {}
       THEN MatchingNewestFirst(txn.rows, store.logs, txn.task_id, txn.level)
       ELSE \E full \in FullOrderings(store.logs, txn.task_id, txn.level) :
              LET o == IF txn.offset = {} THEN 0 ELSE Unwrap(txn.offset)
                  n == MaxOf(0, MinOf(Unwrap(txn.limit), Len(full) - o))
              IN /\ Len(txn.rows) = n
                 /\ \A i \in 1..n : txn.rows[i] = full[o + i]
  /\ txn.op = "count_logs" =>
       txn.count = Cardinality({i \in 1..Len(store.logs) :
                                  Matches(store.logs[i], txn.task_id, txn.level)})

\* the second page of a query with both filters on a table that also holds
\* a row of another level
C24_Witness ==
  /\ txn.op = "list_logs"
  /\ txn.task_id = {"t1"}
  /\ txn.level = {"error"}
  /\ txn.limit = {1}
  /\ txn.offset = {1}
  /\ Len(txn.rows) = 1
  /\ Len(store.logs) = 3
  /\ \E i \in 1..3 : store.logs[i].level = "info"

\* an offset given without a limit, on a table with rows
C24_WitnessOffsetAlone ==
  /\ txn.op = "list_logs"
  /\ txn.limit = {}
  /\ txn.offset = {1}
  /\ Len(txn.rows) = MaxLogs

(* ------------------------------ transport ------------------------------ *)
\* pages a listing has at most: the service sends no next_marker on page
\* MaxPages
MaxPages == 3

\* service codes: success, a plain error, "file too large"
Codes == {0, 203, FileTooLargeCode}

\* a response: whether one arrived at all (send() and the body), the code
\* of the envelope, and what the envelope carries as data: nothing
\* ("absent"), a value of another type than the operation expects
\* ("string"), or a value of that type ("typed", with its payload)
ResponsesOf(payloads) ==
  {[sent |-> FALSE, code |-> 0, shape |-> "absent", payload |-> <<>>]}
    \cup {[sent |-> TRUE, code |-> c, shape |-> s, payload |-> <<>>] :
            c \in Codes, s \in {"absent", "string"}}
    \cup {[sent |-> TRUE, code |-> c, shape |-> "typed", payload |-> p] :
            c \in Codes, p \in payloads}

\* reqwest errors: no response, and a body that is not an ApiResponse<T>
\* (the text names the type mismatch and its position in the body)
TransportError == [cloudreve |-> FALSE, code |-> 0, text |-> <<116>>]

DecodeError == [cloudreve |-> FALSE, code |-> 0, text |-> <<100>>]

\* json::<ApiResponse<T>>(): data is a required field; a serde_json Value
\* takes any value that is present, a struct or Vec only its own shape
Decodes(resp, type) ==
  IF type = "Value" THEN resp.shape # "absent" ELSE resp.shape = "typed"

\* Result values: Ok(data) and Err(err)
Ok(data) == [ok |-> TRUE, err |-> {}, data |-> {data}]

Err(err) == [ok |-> FALSE, err |-> {err}, data |-> {}]

\* send().await?.json::<ApiResponse<T>>().await? and the check of the code
ApiCall(resp, type) ==
  IF ~resp.sent THEN Err(TransportError)
  ELSE IF ~Decodes(resp, type) THEN Err(DecodeError)
  ELSE IF resp.code # 0
       THEN Err([cloudreve |-> TRUE, code |-> resp.code, text |-> <<>>])
       ELSE Ok(resp.payload)

\* Ok(()) of the operations that return no data
Unit(result) == IF result.ok THEN Ok(<<>>) ELSE result

\* FileEntry values of a page: id and type (1 is a directory)
FileEntries == {[id |-> i, file_type |-> t] : i \in 1..2, t \in 0..1}

\* ListFilesData values the service sends
ListFilesData ==
  {[files |-> f, next_marker |-> m] :
     f \in {<<>>} \cup {<<e>> : e \in FileEntries}
             \cup {<<[id |-> 1, file_type |-> 0], [id |-> 2, file_type |-> 1]>>},
     m \in BOOLEAN}

\* list_files
list_files(resp) == ApiCall(resp, "ListFilesData")

\* the RemoteFile list_all_files pushes for a FileEntry
RemoteFile(item) == [id |-> item.id, is_dir |-> (item.file_type = 1)]

\* no operation of the client is being awaited
Idle == IF net.op = "none" THEN TRUE ELSE net.status # "running"

\* list_all_files up to its first request
ListAllStart ==
  /\ Idle
  /\ net' = [op |-> "list_all_files", status |-> "running", page |-> 1,
             output |-> <<>>, requested |-> <<>>, served |-> <<>>,
             result |-> Err(TransportError)]
  /\ UNCHANGED <<sync_vars, runner_vars, store, txn, uri, legacy>>

\* (variant: a failed page ends the loop with the files listed so far)
list_all_files_page_partial(st, resp) ==
  LET r == list_files(resp)
      requested == Append(st.requested, st.page)
      served == Append(st.served, resp)
  IN IF ~r.ok
     THEN [st EXCEPT !.status = "ok", !.requested = requested, !.served = served,
                     !.result = Ok(st.output)]
     ELSE LET data == Unwrap(r.data)
              output == st.output \o [i \in 1..Len(data.files) |-> RemoteFile(data.files[i])]
          IN IF ~data.next_marker
             THEN [st EXCEPT !.status = "ok", !.requested = requested,
                             !.served = served, !.output = output,
                             !.result = Ok(output)]
             ELSE [st EXCEPT !.page = @ + 1, !.requested = requested,
                             !.served = served, !.output = output]

\* one turn of the loop of list_all_files: the request of page st.page,
\* answered by resp
list_all_files_page(st, resp) ==
  LET r == list_files(resp)
      requested == Append(st.requested, st.page)
      served == Append(st.served, resp)
  IN IF ~r.ok
     THEN [st EXCEPT !.status = "err", !.requested = requested, !.served = served,
                     !.result = r]
     ELSE LET data == Unwrap(r.data)
              output == st.output \o [i \in 1..Len(data.files) |-> RemoteFile(data.files[i])]
          IN IF ~data.next_marker
             THEN [st EXCEPT !.status = "ok", !.requested = requested,
                             !.served = served, !.output = output,
                             !.result = Ok(output)]
             ELSE [st EXCEPT !.page = @ + 1, !.requested = requested,
                             !.served = served, !.output = output]

\* the service answers the request of the page
ListAllPage ==
  /\ net.op = "list_all_files"
  /\ net.status = "running"
  /\ \E resp \in ResponsesOf(ListFilesData) :
       /\ (resp.sent /\ resp.shape = "typed" /\ resp.payload.next_marker)
            => net.page < MaxPages
       /\ net' = list_all_files_page(net, resp)
  /\ UNCHANGED <<sync_vars, runner_vars, store, txn, uri, legacy>>

\* an operation of one request that has returned: the response is decoded,
\* its code checked, and the data handed on or dropped
Returned(op, type, resp, unit) ==
  [op |-> op, status |-> "done", requests |-> 1, resp |-> resp,
   result |-> IF unit THEN Unit(ApiCall(resp, type)) ELSE ApiCall(resp, type)]

Ping ==
  /\ Idle
  /\ \E resp \in ResponsesOf({<<>>}) :
       net' = Returned("ping", "Value", resp, TRUE)
  /\ UNCHANGED <<sync_vars, runner_vars, store, txn, uri, legacy>>

ListFiles ==
  /\ Idle
  /\ \E resp \in ResponsesOf(ListFilesData) :
       net' = Returned("list_files", "ListFilesData", resp, FALSE)
  /\ UNCHANGED <<sync_vars, runner_vars, store, txn, uri, legacy>>

ListStoragePolicies ==
  /\ Idle
  /\ \E resp \in ResponsesOf({<<>>}) :
       net' = Returned("list_storage_policies", "Vec", resp, FALSE)
  /\ UNCHANGED <<sync_vars, runner_vars, store, txn, uri, legacy>>

\* DownloadUrlResponse values: no URL, one URL
DownloadUrlResponses == {[urls |-> u] : u \in {<<>>, <<1>>}}

create_download_urls(resp) == ApiCall(resp, "DownloadUrlResponse")

CreateDownloadUrls ==
  /\ Idle
  /\ \E resp \in ResponsesOf(DownloadUrlResponses) :
       net' = Returned("create_download_urls", "DownloadUrlResponse", resp, FALSE)
  /\ UNCHANGED <<sync_vars, runner_vars, store, txn, uri, legacy>>

\* what the GET of the download URL brings: whether a response arrived, its
\* HTTP status and its body
Fetches == [sent : BOOLEAN, http : {200, 404}, body : Contents]

\* download_file: create_download_urls, the first URL, GET, the body
download_file(resp, get) ==
  LET result == create_download_urls(resp)
  IN IF ~result.ok THEN result
     ELSE IF Len(Unwrap(result.data).urls) = 0
          THEN Err([cloudreve |-> FALSE, code |-> 0, text |-> <<109>>])
          ELSE IF ~get.sent THEN Err(TransportError)
               ELSE Ok(get.body)

DownloadFile ==
  /\ Idle
  /\ \E resp \in ResponsesOf(DownloadUrlResponses), get \in Fetches :
       LET result == download_file(resp, get)
           fetched == create_download_urls(resp).ok
                        /\ Len(resp.payload.urls) > 0
       IN net' = [op |-> "download_file", status |-> "done",
                  requests |-> IF fetched THEN 2 ELSE 1, resp |-> resp,
                  get |-> IF fetched THEN {get} ELSE {}, result |-> result]
  /\ UNCHANGED <<sync_vars, runner_vars, store, txn, uri, legacy>>

UpdateFileContent ==
  /\ Idle
  /\ \E resp \in ResponsesOf({<<>>}) :
       net' = Returned("update_file_content", "Value", resp, TRUE)
  /\ UNCHANGED <<sync_vars, runner_vars, store, txn, uri, legacy>>

CreateUploadSession ==
  /\ Idle
  /\ \E resp \in ResponsesOf({[chunk_size |-> c] : c \in ChunkSizes}) :
       net' = Returned("create_upload_session", "UploadSession", resp, FALSE)
  /\ UNCHANGED <<sync_vars, runner_vars, store, txn, uri, legacy>>

UploadChunk ==
  /\ Idle
  /\ \E resp \in ResponsesOf({<<>>}) :
       net' = Returned("upload_chunk", "Value", resp, TRUE)
  /\ UNCHANGED <<sync_vars, runner_vars, store, txn, uri, legacy>>

PatchMetadata ==
  /\ Idle
  /\ \E resp \in ResponsesOf({<<>>}) :
       net' = Returned("patch_metadata", "Value", resp, TRUE)
  /\ UNCHANGED <<sync_vars, runner_vars, store, txn, uri, legacy>>

\* delete_files: no request for an empty list
DeleteFiles ==
  \/ /\ Idle
     /\ net' = [op |-> "delete_files", status |-> "done", requests |-> 0,
                resp |-> [sent |-> FALSE, code |-> 0, shape |-> "absent",
                          payload |-> <<>>],
                result |-> Ok(<<>>)]
     /\ UNCHANGED <<sync_vars, runner_vars, store, txn, uri, legacy>>
  \/ /\ Idle
     /\ \E resp \in ResponsesOf({<<>>}) :
          net' = Returned("delete_files", "Value", resp, TRUE)
     /\ UNCHANGED <<sync_vars, runner_vars, store, txn, uri, legacy>>

PasswordSignIn ==
  /\ Idle
  /\ \E resp \in ResponsesOf({<<>>}) :
       net' = Returned("password_sign_in", "LoginResponse", resp, FALSE)
  /\ UNCHANGED <<sync_vars, runner_vars, store, txn, uri, legacy>>

GetCaptcha ==
  /\ Idle
  /\ \E resp \in ResponsesOf({<<>>}) :
       net' = Returned("get_captcha", "CaptchaData", resp, FALSE)
  /\ UNCHANGED <<sync_vars, runner_vars, store, txn, uri, legacy>>

NetNext ==
  \/ ListAllStart
  \/ ListAllPage
  \/ Ping
  \/ ListFiles
  \/ ListStoragePolicies
  \/ CreateDownloadUrls
  \/ DownloadFile
  \/ UpdateFileContent
  \/ CreateUploadSession
  \/ UploadChunk
  \/ PatchMetadata
  \/ DeleteFiles
  \/ PasswordSignIn
  \/ GetCaptcha

NetSpec == Init /\ [][NetNext]_vars

\* the future of list_all_files is awaited by its caller and every request
\* is answered, so the loop keeps taking turns
NetFairSpec == NetSpec /\ WF_vars(ListAllPage)

\* the page was served: a response with code 0 and a ListFilesData
PageOk(resp) == resp.sent /\ resp.shape = "typed" /\ resp.code = 0

\* the files of pages 1..k, in page order
RECURSIVE FilesOfPages(_, _)
FilesOfPages(served, k) ==
  IF k = 0 THEN <<>>
  ELSE FilesOfPages(served, k - 1)
         \o [i \in 1..Len(served[k].payload.files) |->
               RemoteFile(served[k].payload.files[i])]

Listing == IF net.op = "list_all_files" THEN net.status = "running" ELSE FALSE

Listed == IF net.op = "list_all_files" THEN net.status # "running" ELSE FALSE

PaginationSafe ==
  net.op = "list_all_files" =>
    LET k == Len(net.served)
    IN /\ Len(net.requested) = k
       /\ \A i \in 1..k : net.requested[i] = i
       /\ \A i \in 1..(k - 1) : PageOk(net.served[i]) /\ net.served[i].payload.next_marker
       /\ net.status = "running" =>
            /\ net.page = k + 1
            /\ k > 0 => PageOk(net.served[k]) /\ net.served[k].payload.next_marker
       /\ net.status = "ok" =>
            /\ k > 0
            /\ PageOk(net.served[k])
            /\ ~net.served[k].payload.next_marker
            /\ net.result = Ok(FilesOfPages(net.served, k))
       /\ net.status = "err" =>
            /\ k > 0
            /\ ~PageOk(net.served[k])
            /\ ~net.result.ok
            /\ net.result.data = {}

\* C25  Pagination of list_all_files: pages 1, 2, 3, ... are requested in
\* order; the result is the concatenation of the files of pages 1..k, k the
\* first page without next_marker, and no page after k is requested; a
\* failed page fails the whole listing with no partial list; and a listing
\* whose service stops sending next_marker terminates.
C25_Pagination ==
  /\ []PaginationSafe
  /\ Listing ~> Listed

\* a listing of three pages that returned files of more than one page
C25_Witness ==
  /\ net.op = "list_all_files"
  /\ net.status = "ok"
  /\ Len(net.served) = MaxPages
  /\ Len(net.served[1].payload.files) = 2
  /\ Len(net.served[2].payload.files) = 1
  /\ Len(Unwrap(net.result.data)) >= 3

\* a listing whose second page failed after the first had brought files
C25_WitnessFailedPage ==
  /\ net.op = "list_all_files"
  /\ net.status = "err"
  /\ Len(net.served) = 2
  /\ Len(net.served[1].payload.files) = 2

\* Display of an error: a CloudreveError shows its code, any other error its
\* own text
to_string(err) == IF err.cloudreve THEN I64ToString(err.code) ELSE err.text

\* C26  Service error mapping: every transport operation that received a
\* response envelope returns success exactly when the code of the envelope
\* is 0, and otherwise an error whose text contains the code, and no data.
C26_ServiceErrorMapping ==
  (net.op \notin {"none", "list_all_files"} /\ net.resp.sent) =>
     /\ net.result.ok <=> net.resp.code = 0
     /\ ~net.result.ok =>
          /\ net.result.data = {}
          /\ Contains(to_string(Unwrap(net.result.err)), I64ToString(net.resp.code))

(* ------------------------------- URIs ---------------------------------- *)
\* relpaths have at most MaxRelLen characters
MaxRelLen == 4

\* the characters of relpaths: a, space, %, ?, 2, 0, /
RelChars == {97, 32, 37, 63, 50, 48, 47}

\* relpaths without leading slash
Relpaths ==
  {s \in UNION {[1..n -> RelChars] : n \in 1..MaxRelLen} : s[1] # 47}

\* "cloudreve://"
Scheme == <<99, 108, 111, 117, 100, 114, 101, 118, 101, 58, 47, 47>>

\* remote roots: cloudreve://my, cloudreve://my/W, cloudreve://my/W/
RootUris ==
  {Scheme \o <<109, 121>>,
   Scheme \o <<109, 121, 47, 87>>,
   Scheme \o <<109, 121, 47, 87, 47>>}

\* str::find: the place of the first occurrence of pat in s, 0 for None
Find(s, pat) ==
  LET hits == {i \in 1..(Len(s) - Len(pat) + 1) : SubSeq(s, i, i + Len(pat) - 1) = pat}
  IN IF hits = {} THEN 0 ELSE CHOOSE i \in hits : \A j \in hits : i <= j

\* s[from..]
From(s, from) == SubSeq(s, from, Len(s))

RECURSIVE trim_end_matches(_, _)
trim_end_matches(s, ch) ==
  IF s # <<>> /\ s[Len(s)] = ch THEN trim_end_matches(SubSeq(s, 1, Len(s) - 1), ch)
  ELSE s

RECURSIVE trim_start_matches(_, _)
trim_start_matches(s, ch) ==
  IF s # <<>> /\ s[1] = ch THEN trim_start_matches(Tail(s), ch) ELSE s

\* str::strip_prefix as a set: {} is None
strip_prefix(s, prefix) ==
  IF Len(prefix) <= Len(s) /\ SubSeq(s, 1, Len(prefix)) = prefix
  THEN {From(s, Len(prefix) + 1)}
  ELSE {}

IsHexDigit(c) == c \in (48..57) \cup (65..70) \cup (97..102)

HexValue(c) == IF c <= 57 THEN c - 48 ELSE IF c <= 70 THEN c - 55 ELSE c - 87

\* urlencoding::decode_binary: %XY with two hexadecimal digits is the byte
\* XY, any other % stands for itself
RECURSIVE decode_binary(_)
decode_binary(s) ==
  IF s = <<>> THEN <<>>
  ELSE IF s[1] = 37 /\ Len(s) >= 3 /\ IsHexDigit(s[2]) /\ IsHexDigit(s[3])
       THEN <<HexValue(s[2]) * 16 + HexValue(s[3])>> \o decode_binary(From(s, 4))
       ELSE <<s[1]>> \o decode_binary(Tail(s))

\* urlencoding::decode as a set: {} is Err (the bytes are not UTF-8; of the
\* bytes that arise here exactly those below 128 are)
decode(s) ==
  LET bytes == decode_binary(s)
  IN IF \A i \in 1..Len(bytes) : bytes[i] < 128 THEN {bytes} ELSE {}

\* the hexadecimal digit of v, upper case
HexDigit(v) == IF v < 10 THEN 48 + v ELSE 55 + v

\* urlencoding::encode: letters, digits, - _ . ~ stay, any other byte is %XY
RECURSIVE encode(_)
encode(s) ==
  IF s = <<>> THEN <<>>
  ELSE (IF s[1] \in (48..57) \cup (65..90) \cup (97..122) \cup {45, 95, 46, 126}
        THEN <<s[1]>>
        ELSE <<37, HexDigit(s[1] \div 16), HexDigit(s[1] % 16)>>)
       \o encode(Tail(s))

\* str::split(ch): the parts between the occurrences of ch
RECURSIVE split(_, _)
split(s, ch) ==
  LET at == Find(s, <<ch>>)
  IN IF at = 0 THEN <<s>>
     ELSE <<SubSeq(s, 1, at - 1)>> \o split(From(s, at + 1), ch)

\* join(sep) of a list of strings
RECURSIVE join(_, _)
join(parts, sep) ==
  IF Len(parts) = 0 THEN <<>>
  ELSE IF Len(parts) = 1 THEN parts[1]
  ELSE parts[1] \o <<sep>> \o join(Tail(parts), sep)

\* uri_path: the query is cut off, scheme and authority are dropped, and
\* the path is percent-decoded (kept as it is when decoding fails)
uri_path(u) ==
  LET query == Find(u, <<63>>)
      cleaned == IF query = 0 THEN u ELSE SubSeq(u, 1, query - 1)
      pos == Find(cleaned, Scheme)
      rest == From(cleaned, pos + Len(Scheme))
      slash == Find(rest, <<47>>)
      path == IF pos = 0 THEN cleaned
              ELSE IF slash = 0 THEN <<>> ELSE From(rest, slash)
  IN IF decode(path) = {} THEN path ELSE Unwrap(decode(path))

\* build_remote_uri of the sync engine
build_remote_uri(root_uri, relpath) ==
  trim_end_matches(root_uri, 47) \o <<47>> \o trim_start_matches(relpath, 47)

\* build_remote_uri of the command layer: every segment is percent-encoded
main_build_remote_uri(root_uri, relpath) ==
  LET parts == split(relpath, 47)
  IN trim_end_matches(root_uri, 47) \o <<47>>
       \o join([i \in 1..Len(parts) |-> encode(parts[i])], 47)

\* to_remote_map: the relpath of a listed URI under the root
relpath_of(file_uri, remote_root_uri) ==
  LET root_path == uri_path(remote_root_uri)
      file_path == uri_path(file_uri)
      stripped == strip_prefix(file_path, root_path)
  IN trim_start_matches(IF stripped = {} THEN file_path ELSE Unwrap(stripped), 47)

\* a URI is built for the relpath by both builders, and read back
BuildRemoteUri ==
  /\ uri.op = "input"
  /\ uri.fn = "build_remote_uri"
  /\ uri' = [op |-> "build_remote_uri", root |-> uri.root, relpath |-> uri.relpath,
             built |-> build_remote_uri(uri.root, uri.relpath),
             command_built |-> main_build_remote_uri(uri.root, uri.relpath),
             relpath_back |-> relpath_of(build_remote_uri(uri.root, uri.relpath),
                                         uri.root)]
  /\ UNCHANGED <<sync_vars, runner_vars, store, txn, net, legacy>>

\* "1970-01-01T00:00:0", the timestamps 1970-01-01T00:00:0nZ follow it
EpochPrefix ==
  <<49, 57, 55, 48, 45, 48, 49, 45, 48, 49, 84, 48, 48, 58, 48, 48, 58, 48>>

\* the readings of the clock during a listing
ListingClock == {5, 6}

\* DateTime::parse_from_rfc3339 and timestamp_millis as a set ({} is Err),
\* for the updated_at strings listed here: 1970-01-01T00:00:0nZ is second n
parse_from_rfc3339(value) ==
  IF /\ Len(value) = Len(EpochPrefix) + 2
     /\ SubSeq(value, 1, Len(EpochPrefix)) = EpochPrefix
     /\ value[Len(value) - 1] \in 48..57
     /\ value[Len(value)] = 90
  THEN {(value[Len(value) - 1] - 48) * 1000}
  ELSE {}

\* parse_updated_at: the parsed time, or the clock
parse_updated_at(value, clock) ==
  IF parse_from_rfc3339(value) = {} THEN clock
  ELSE Unwrap(parse_from_rfc3339(value))

\* updated_at strings of listed records: second 1, second 2, "not-a-time"
UpdatedAts ==
  {EpochPrefix \o <<49, 90>>, EpochPrefix \o <<50, 90>>,
   <<110, 111, 116, 45, 97, 45, 116, 105, 109, 101>>}

\* metadata maps of listed records: each of the three keys is absent, or
\* holds a number, or (the two times) holds text that is no number
ListedMetadata ==
  {m \in UNION {[keys -> {<<51>>, <<120>>, Sha(1)}] :
                  keys \in SUBSET {META_MTIME, META_SHA256, META_DELETED_AT}} :
     /\ META_SHA256 \in DOMAIN m => m[META_SHA256] = Sha(1)
     /\ META_MTIME \in DOMAIN m => m[META_MTIME] # Sha(1)
     /\ META_DELETED_AT \in DOMAIN m => m[META_DELETED_AT] # Sha(1)}

\* the root of the listings, cloudreve://my/W
ListedRoot == Scheme \o <<109, 121, 47, 87>>

\* URIs of listed records: the root itself, and a and "a b" under it, the
\* latter percent-encoded
ListedUris ==
  {ListedRoot, ListedRoot \o <<47>>, ListedRoot \o <<47, 97>>,
   ListedRoot \o <<47, 97, 37, 50, 48, 98>>}

\* RemoteFile values of a listing
ListedFiles ==
  {[id |-> 1, uri |-> u, is_dir |-> d, updated_at |-> t, metadata |-> m] :
     u \in ListedUris, d \in BOOLEAN, t \in UpdatedAts, m \in ListedMetadata}

\* a plain file b under the root
OtherFile ==
  [id |-> 2, uri |-> ListedRoot \o <<47, 98>>, is_dir |-> FALSE,
   updated_at |-> EpochPrefix \o <<49, 90>>, metadata |-> <<>>]

\* HashMap::get(key).and_then(parse::<i64>().ok())
ParsedMeta(metadata, key) ==
  IF key \in DOMAIN metadata THEN ParseI64(metadata[key]) ELSE {}

\* (variant: an unparseable customize:sync_mtime_ms gives the clock, not
\* updated_at)
ListedInfoNoFallback(file, relpath, clock) ==
  [file_id |-> file.id,
   uri |-> file.uri,
   relpath |-> relpath,
   mtime_ms |-> IF ParsedMeta(file.metadata, META_MTIME) # {}
                THEN Unwrap(ParsedMeta(file.metadata, META_MTIME))
                ELSE IF META_MTIME \in DOMAIN file.metadata THEN clock
                     ELSE parse_updated_at(file.updated_at, clock),
   sha256 |-> IF META_SHA256 \in DOMAIN file.metadata
              THEN file.metadata[META_SHA256] ELSE <<>>,
   deleted_at_ms |-> ParsedMeta(file.metadata, META_DELETED_AT),
   metadata |-> file.metadata]

\* the RemoteFileInfo to_remote_map inserts for a record it keeps
ListedInfo(file, relpath, clock) ==
  [file_id |-> file.id,
   uri |-> file.uri,
   relpath |-> relpath,
   mtime_ms |-> IF ParsedMeta(file.metadata, META_MTIME) # {}
                THEN Unwrap(ParsedMeta(file.metadata, META_MTIME))
                ELSE parse_updated_at(file.updated_at, clock),
   sha256 |-> IF META_SHA256 \in DOMAIN file.metadata
              THEN file.metadata[META_SHA256] ELSE <<>>,
   deleted_at_ms |-> ParsedMeta(file.metadata, META_DELETED_AT),
   metadata |-> file.metadata]

\* to_remote_map over a listing as list_all_files returns it: directories
\* and records with an empty relpath are skipped, a later record of the same
\* relpath replaces an earlier one
RECURSIVE to_remote_map_listed(_, _, _)
to_remote_map_listed(files, remote_root_uri, clock) ==
  IF files = <<>> THEN <<>>
  ELSE LET file == files[Len(files)]
           out == to_remote_map_listed(SubSeq(files, 1, Len(files) - 1),
                                       remote_root_uri, clock)
           relpath == relpath_of(file.uri, remote_root_uri)
       IN IF file.is_dir \/ relpath = <<>> THEN out
          ELSE [p \in DOMAIN out \cup {relpath} |->
                  IF p = relpath THEN ListedInfo(file, relpath, clock) ELSE out[p]]

\* the listing is normalised
ToRemoteMap ==
  /\ uri.op = "input"
  /\ uri.fn = "to_remote_map"
  /\ uri' = [op |-> "to_remote_map", files |-> uri.files, clock |-> uri.clock,
             out |-> to_remote_map_listed(uri.files, ListedRoot, uri.clock)]
  /\ UNCHANGED <<sync_vars, runner_vars, store, txn, net, legacy>>

\* the arguments of the URI and listing functions
UriInputs ==
  {[op |-> "input", fn |-> "build_remote_uri", root |-> root, relpath |-> relpath] :
     root \in RootUris, relpath \in Relpaths}
    \cup {[op |-> "input", fn |-> "to_remote_map", files |-> <<file>> \o rest,
            clock |-> clock] :
            file \in ListedFiles, rest \in {<<>>, <<OtherFile>>},
            clock \in ListingClock}

\* as Init, with the arguments of one call drawn
UriInit ==
  /\ local = EmptyMap
  /\ remote = EmptyMap
  /\ entries = EmptyMap
  /\ tombstones = EmptyMap
  /\ conflicts = <<>>
  /\ logs = <<>>
  /\ now = MaxTime
  /\ pc = "idle"
  /\ local_map = EmptyMap
  /\ remote_map = EmptyMap
  /\ entry_map = EmptyMap
  /\ tombstone_map = EmptyMap
  /\ all_paths = <<>>
  /\ idx = 1
  /\ stats = ZeroStats
  /\ ops = <<>>
  /\ handled = <<>>
  /\ fails = 0
  /\ ext = 0
  /\ passes = 0
  /\ walk_errors = 0
  /\ quiet = 0
  /\ AppInit
  /\ store = [entries |-> {}, tombstones |-> {}, logs |-> <<>>]
  /\ txn = [op |-> "none"]
  /\ net = [op |-> "none"]
  /\ uri \in UriInputs
  /\ legacy = [op |-> "none"]

UriNext ==
  \/ BuildRemoteUri
  \/ ToRemoteMap

UriSpec == UriInit /\ [][UriNext]_vars

\* C27  Remote normalisation: of the listed records, directories and records
\* whose relpath under the root is empty are dropped; a kept record has
\* mtime_ms from customize:sync_mtime_ms when it is present and a number,
\* else from updated_at when that is a timestamp, else from the clock;
\* sha256 from customize:sync_sha256 or empty; deleted_at_ms exactly when
\* customize:sync_deleted_at_ms is present and a number.
C27_RemoteNormalisation ==
  uri.op = "to_remote_map" =>
    /\ \A i \in 1..Len(uri.files) :
         LET file == uri.files[i]
             md == file.metadata
             relpath == relpath_of(file.uri, ListedRoot)
         IN IF file.is_dir \/ relpath = <<>>
            THEN relpath \notin DOMAIN uri.out
            ELSE /\ relpath \in DOMAIN uri.out
                 /\ LET info == uri.out[relpath]
                    IN /\ info.mtime_ms =
                            IF META_MTIME \in DOMAIN md /\ ParseI64(md[META_MTIME]) # {}
                            THEN Unwrap(ParseI64(md[META_MTIME]))
                            ELSE IF file.updated_at \in {EpochPrefix \o <<49, 90>>,
                                                         EpochPrefix \o <<50, 90>>}
                                 THEN IF file.updated_at[Len(EpochPrefix) + 1] = 49
                                      THEN 1000 ELSE 2000
                                 ELSE uri.clock
                       /\ info.sha256 = IF META_SHA256 \in DOMAIN md
                                        THEN md[META_SHA256] ELSE <<>>
                       /\ (info.deleted_at_ms # {}) <=>
                            (META_DELETED_AT \in DOMAIN md
                               /\ ParseI64(md[META_DELETED_AT]) # {})
                       /\ info.deleted_at_ms # {} =>
                            info.deleted_at_ms = ParseI64(md[META_DELETED_AT])
    /\ \A p \in DOMAIN uri.out :
         \E i \in 1..Len(uri.files) : p = relpath_of(uri.files[i].uri, ListedRoot)

\* a record with an unparseable customize:sync_mtime_ms and an unparseable
\* updated_at is kept with the clock's time, next to a second record
C27_Witness ==
  /\ uri.op = "to_remote_map"
  /\ Len(uri.files) = 2
  /\ META_MTIME \in DOMAIN uri.files[1].metadata
  /\ ParseI64(uri.files[1].metadata[META_MTIME]) = {}
  /\ parse_from_rfc3339(uri.files[1].updated_at) = {}
  /\ <<97, 32, 98>> \in DOMAIN uri.out
  /\ uri.out[<<97, 32, 98>>].mtime_ms = uri.clock
  /\ Cardinality(DOMAIN uri.out) = 2

\* a directory and a record at the root are dropped
C27_WitnessDropped ==
  /\ uri.op = "to_remote_map"
  /\ uri.files[1].is_dir
  /\ uri.out = <<>>

\* C28  URI round trip: the relpath read back from the URI the sync engine
\* builds is the relpath it was built from, and the sync engine and the
\* command layer build the same URI.
C28_UriRoundTrip ==
  uri.op = "build_remote_uri" =>
    /\ uri.relpath_back = uri.relpath
    /\ uri.built = uri.command_built

(* ------------------------- metadata and counters ----------------------- *)
\* C29  Metadata round trip: the iteration that uploads path p successfully
\* leaves customize:sync_mtime_ms and customize:sync_sha256 of the remote
\* file equal to L.mtime_ms (as decimal text) and L.sha256, the entry's
\* last_remote_mtime_ms and last_remote_sha256 equal to the same values, and
\* the listed record normalises to a RemoteFileInfo that is not
\* remote_changed against the entry.
C29_MetadataRoundTrip ==
  [][(Iter /\ Item.ok /\ Item.act \in {"upload_local", "upload_new_local"}) =>
       LET p == Item.path
           L == local_map[p]
       IN /\ p \in DOMAIN remote'
          /\ p \in DOMAIN entries'
          /\ {META_MTIME, META_SHA256} \subseteq DOMAIN remote'[p].meta
          /\ remote'[p].meta[META_MTIME] = I64ToString(L.mtime_ms)
          /\ remote'[p].meta[META_SHA256] = L.sha256
          /\ entries'[p].last_remote_mtime_ms = L.mtime_ms
          /\ entries'[p].last_remote_sha256 = L.sha256
          /\ ~remote_changed(RemoteInfo(p, remote'[p]), entries'[p], TRUE)]_vars

\* an upload over an existing remote file has succeeded and the listing of
\* the file agrees with the entry
C29_Witness ==
  \E i \in 1..Len(handled) :
    /\ handled[i].act = "upload_local"
    /\ handled[i].ok
    /\ handled[i].path \in DOMAIN remote
    /\ handled[i].path \in DOMAIN entries
    /\ META_MTIME \in DOMAIN remote[handled[i].path].meta
    /\ ~remote_changed(RemoteInfo(handled[i].path, remote[handled[i].path]),
                       entries[handled[i].path], TRUE)

\* C30  Counters reflect only successful byte movement: the counters of a
\* pass start at zero and change only in the iterations of the pass; an
\* iteration adds to uploaded_bytes the size of the file when its upload
\* action returns Ok and nothing otherwise, also when the upload fails after
\* the content or some chunks were sent, and adds to downloaded_bytes the
\* size of the file when its download returns Ok and nothing otherwise.
C30_CountersOnlySuccess ==
  [][/\ Iter =>
          LET p == Item.path
          IN /\ stats'.uploaded_bytes = stats.uploaded_bytes
                  + (IF Item.ok /\ Item.act \in {"upload_local", "upload_new_local"}
                     THEN Size(ReadContent(local, p)) ELSE 0)
             /\ stats'.downloaded_bytes = stats.downloaded_bytes
                  + (IF Item.ok /\ Item.act \in {"download_remote", "download_new_remote"}
                     THEN Size(ReadContent(remote, p)) ELSE 0)
     /\ ~Iter => (stats' = stats \/ stats' = ZeroStats)]_vars

(* ---------------- failed actions: journal and retry (C31) -------------- *)
\* the action of the reconciliation table a branch of the loop belongs to
ActionKind(act) ==
  CASE act \in {"upload_local", "upload_new_local"} -> "upload"
    [] act \in {"download_remote", "download_new_remote"} -> "download"
    [] act = "set_remote_deleted" -> "soft_delete"
    [] act = "handle_conflict" -> "conflict"
    [] OTHER -> act

RetriedKinds == {"upload", "download", "soft_delete", "conflict"}

\* the row of path p in a journal table, {} when it has none
RowOf(table, p) == IF p \in DOMAIN table THEN {table[p]} ELSE {}

\* the iteration just taken returned Err at a call of the given kinds
FailedAt(kinds) ==
  /\ Iter
  /\ ~Item.ok
  /\ ActionKind(Item.act) \in RetriedKinds
  /\ ops' # <<>>
  /\ ops'[Len(ops')].k \in kinds

\* a pass begins on a full local view right after the pass whose items are
\* in handled (an external mutation in between empties handled)
NextPassBegins == pc # "run" /\ pc' = "run" /\ walk_errors' = 0

\* the pass that begins selects for every failed path of the last pass
\* the action that failed
FailedRetried ==
  \A i \in 1..Len(handled) :
    (~handled[i].ok /\ ActionKind(handled[i].act) \in RetriedKinds) =>
      ActionKind(Decide(handled[i].path, local_map', remote_map', entry_map',
                        tombstone_map')) = ActionKind(handled[i].act)

AllCallKinds ==
  {"fs_read", "put_content", "put_content_40049", "put_content_err",
   "create_upload_session", "upload_chunk", "session_done", "patch_metadata",
   "create_dir_all", "download_file", "fs_write", "set_local_mtime", "fs_copy",
   "remove_local_file", "upsert_entry", "insert_tombstone", "insert_conflict",
   "log_db", "stats_download"}

\* C31  Failed actions leave the journal untouched and are retried: an
\* iteration whose upload, download, soft-delete or conflict action for
\* path p returns Err, at whichever call, leaves the entry and the tombstone
\* of p as they were, and the next pass, begun with no external mutation in
\* between, selects the same action for p again.
C31_FailedActionRetried ==
  [][/\ FailedAt(AllCallKinds) =>
          /\ RowOf(entries', Item.path) = RowOf(entries, Item.path)
          /\ RowOf(tombstones', Item.path) = RowOf(tombstones, Item.path)
     /\ NextPassBegins => FailedRetried]_vars

\* C31 for the calls that go over the network: a request that fails (a
\* timeout) leaves the journal rows of the path as they were
C31_RequestFailureJournal ==
  [][FailedAt(NetworkWrites \cup {"download_file"}) =>
       /\ RowOf(entries', Item.path) = RowOf(entries, Item.path)
       /\ RowOf(tombstones', Item.path) = RowOf(tombstones, Item.path)]_vars

(* ---------------- the name of the conflict copy (C32) ------------------ *)
\* Path::parent of a relpath with its separator ("a/" of "a/e.t"), <<>> for
\* a file at the root
DirOf(path) == SubSeq(path, 1, LastIndexOf(path, 47))

\* "{stem} (conflict-{device_id}-{timestamp})" and ".{ext}" for a file name
\* that has an extension
ConflictFileName(name, t) ==
  LET dot == LastIndexOf(name, 46)
      tag == <<32, 40, 99, 111, 110, 102, 108, 105, 99, 116, 45>>
               \o DeviceId \o <<45>> \o TimeStamp(t) \o <<41>>
  IN IF dot <= 1 THEN name \o tag
     ELSE SubSeq(name, 1, dot - 1) \o tag \o SubSeq(name, dot, Len(name))

\* C32  Side-by-side conflict copy: the conflict_relpath of every conflict
\* row lies in the directory of its original_relpath, also when the original
\* is inside a sub-directory, and its file name is
\* "{stem} (conflict-{device_id}-{timestamp})" followed by ".{ext}" when the
\* original has an extension.
C32_ConflictCopySideBySide ==
  \A i \in 1..Len(conflicts) :
    /\ DirOf(conflicts[i].conflict_relpath) = DirOf(conflicts[i].original_relpath)
    /\ FileName(conflicts[i].conflict_relpath)
         = ConflictFileName(FileName(conflicts[i].original_relpath),
                            conflicts[i].created_at_ms)

\* the part of C32 about the file name alone
C32_ConflictFileName ==
  \A i \in 1..Len(conflicts) :
    FileName(conflicts[i].conflict_relpath)
      = ConflictFileName(FileName(conflicts[i].original_relpath),
                         conflicts[i].created_at_ms)

(* ---------------- a local file newer than the tombstone (C33) ---------- *)
\* the pass observed a local file of p that is newer than the tombstone of p
Resurrected(p) ==
  /\ HasT(p)
  /\ HasL(p)
  /\ local_map[p].mtime_ms > tombstone_map[p].deleted_at_ms

\* C33  Tombstone resurrection: the iteration that handles a path which has
\* a tombstone and a local file with mtime_ms greater than the tombstone's
\* deleted_at_ms does not remove the local file, and when it returns Ok it
\* has uploaded the local file and the tombstone of the path is gone.
C33_TombstoneResurrection ==
  [][(Iter /\ Resurrected(Item.path)) =>
       /\ Item.path \in DOMAIN local'
       /\ OpsOn(ops', Item.path, {"remove_local_file"}) = {}
       /\ Item.ok =>
            /\ Item.act \in {"upload_local", "upload_new_local"}
            /\ Item.path \notin DOMAIN tombstones']_vars

(* ---------------- one conflict, several passes (C34) ------------------- *)
\* the conflict rows of original path p written at clock value t
RowsOf(rows, p, t) ==
  {i \in 1..Len(rows) : rows[i].original_relpath = p /\ rows[i].created_at_ms = t}

\* C34  An unresolved conflict is materialised once: when a pass follows a
\* pass that completed without failure, with no external mutation and no
\* resolve call in between, an iteration of it that handles path p as a
\* conflict leaves at most one conflict row and at most one conflict copy of
\* p from the two passes together.
C34_ConflictOnce ==
  [][(Iter /\ Item.act = "handle_conflict" /\ quiet >= 1) =>
       /\ Cardinality(RowsOf(conflicts', Item.path, now)
                        \cup RowsOf(conflicts', Item.path, now - 1)) <= 1
       /\ Cardinality({ConflictRelpath(Item.path, now),
                       ConflictRelpath(Item.path, now - 1)} \cap DOMAIN local') <= 1]_vars

(* ---------------- deletions and unseen changes (C35, C36) -------------- *)
\* the iteration just taken made a call of kind k on its path that returned Ok
Did(k) ==
  \E i \in 1..Len(ops') : ops'[i].k = k /\ ops'[i].path = Item.path /\ ops'[i].ok

\* C35  A local deletion never discards an unseen remote change: an
\* iteration writes sync_deleted_at_ms to the remote record of its path
\* because the local file is gone only if the hash and mtime of the record
\* equal last_remote_sha256 and last_remote_mtime_ms of the journal entry.
C35_LocalDeleteKeepsRemoteChange ==
  [][(Iter /\ Item.act = "set_remote_deleted" /\ Did("patch_metadata")) =>
       ~RChanged(Item.path)]_vars

\* C36  A remote deletion never discards an unseen local change: an
\* iteration removes the local file of its path because the remote record
\* carries the deletion marker only if the path has a journal entry and the
\* hash and mtime of the file equal its last_local_sha256 and
\* last_local_mtime_ms.
C36_RemoteDeleteKeepsLocalChange ==
  [][(Iter /\ Item.act = "remote_deleted" /\ Did("remove_local_file")) =>
       ~LChanged(Item.path)]_vars

(* ---------------- a local deletion after a deletion cycle (C37) -------- *)
\* tombstones an earlier deletion cycle of a/e.t can have left: none, one
\* written by the local-delete branch, one written by the remote-marker branch
EarlierTombstones ==
  {EmptyMap}
    \cup {Put(EmptyMap, PathA,
              [cloud_file_id |-> PathA, deleted_at_ms |-> d, origin |-> o]) :
            d \in 0..(MaxTime - 1), o \in {"local", "remote"}}

\* a/e.t is in sync at clock MaxTime: the local file, the remote record
\* tagged by this installation and the journal entry agree. The path may
\* have been deleted and brought back before (a tombstone of an earlier
\* clock value is in the journal).
DeleteInit ==
  /\ \E c \in Contents, m \in Times :
       /\ local = Put(EmptyMap, PathA, [content |-> c, mtime |-> m])
       /\ remote = Put(EmptyMap, PathA,
                       [content |-> c, updated_at |-> MaxTime,
                        meta |-> [key \in {META_DEVICE_ID, META_MTIME, META_SHA256}
                                    |-> CASE key = META_DEVICE_ID -> DeviceId
                                          [] key = META_MTIME -> I64ToString(m)
                                          [] OTHER -> Sha(c)]])
       /\ entries = Put(EmptyMap, PathA, EntryRow(PathA, m, Sha(c), MaxTime))
  /\ tombstones \in EarlierTombstones
  /\ conflicts = <<>>
  /\ logs = <<>>
  /\ now = MaxTime
  /\ pc = "idle"
  /\ local_map = EmptyMap
  /\ remote_map = EmptyMap
  /\ entry_map = EmptyMap
  /\ tombstone_map = EmptyMap
  /\ all_paths = <<>>
  /\ idx = 1
  /\ stats = ZeroStats
  /\ ops = <<>>
  /\ handled = <<>>
  /\ fails = 0
  /\ ext = 0
  /\ passes = 0
  /\ walk_errors = 0
  /\ quiet = 0
  /\ AppInit
  /\ LibInit

\* the user deletes local files; nobody else touches the tree or the remote
DeleteNext ==
  \/ LocalDelete
  \/ PassBegin
  \/ PassBeginFails
  \/ SyncPathOk
  \/ SyncPathErr
  \/ SyncPathErrLogFails
  \/ Return

DeleteSpec == DeleteInit /\ [][DeleteNext]_vars

\* the steps of sync_once
PassStep ==
  PassBegin \/ PassBeginFails \/ SyncPathOk \/ SyncPathErr \/ SyncPathErrLogFails
    \/ Return

\* The worker loop of run_sync_command calls sync_once again after every
\* interval, whether the last pass returned Ok or Err, and a pass that has
\* begun runs to its end.
DeleteFairSpec == DeleteSpec /\ WF_vars(PassStep)

\* a/e.t has a journal entry and a remote record without the deletion
\* marker, its local file is gone, and no pass has run since
LocallyDeleted ==
  IF pc # "run" /\ passes = 0 /\ PathA \notin DOMAIN local
       /\ PathA \in DOMAIN entries /\ PathA \in DOMAIN remote
  THEN META_DELETED_AT \notin DOMAIN remote[PathA].meta
  ELSE FALSE

RemoteMarked ==
  IF PathA \in DOMAIN remote THEN META_DELETED_AT \in DOMAIN remote[PathA].meta
  ELSE FALSE

NoEarlierTombstone == PathA \notin DOMAIN tombstones

\* the iteration just taken handled a path whose local file is gone while
\* its entry and its unmarked, unchanged remote record are there
SawLocalDelete ==
  /\ Iter
  /\ ~HasL(Item.path) /\ HasE(Item.path) /\ HasR(Item.path)
  /\ ~Marked(Item.path) /\ ~RChanged(Item.path)

\* C37  Every local deletion is eventually propagated: when a file with a
\* journal entry is deleted locally while its remote record has no deletion
\* marker, a later pass marks the remote record deleted, and no pass
\* downloads the file again; also when the path has a tombstone of an
\* earlier deletion cycle.
C37_LocalDeletePropagated ==
  /\ LocallyDeleted ~> RemoteMarked
  /\ [][SawLocalDelete =>
          OpsOn(ops', Item.path, {"download_file", "fs_write"}) = {}]_vars

\* C37 for a path that has no tombstone
C37_FirstDeletePropagated ==
  /\ (IF NoEarlierTombstone THEN LocallyDeleted ELSE FALSE) ~> RemoteMarked
  /\ [][(SawLocalDelete /\ ~HasT(Item.path)) =>
          OpsOn(ops', Item.path, {"download_file", "fs_write"}) = {}]_vars

\* a state of the sync passes in which a/e.t is in sync and has a tombstone
\* of an earlier deletion cycle
InSyncAfterDeletionCycle ==
  /\ pc = "done"
  /\ PathA \in DOMAIN local /\ PathA \in DOMAIN remote
  /\ PathA \in DOMAIN entries /\ PathA \in DOMAIN tombstones
  /\ ~local_changed(scan_local(local)[PathA], entries[PathA], TRUE)
  /\ ~remote_changed(RemoteInfo(PathA, remote[PathA]), entries[PathA], TRUE)
  /\ META_DELETED_AT \notin DOMAIN remote[PathA].meta

(* ---------------- the registry and the live workers (C38) -------------- *)
\* is_running: the registry holds a handle for the task
is_running(t) == t \in DOMAIN runners

\* the thread of worker w has not returned
Alive(w) == workers[w].pc # "exit"

\* C38  Runner registry matches live workers: every task_id in the runner
\* registry has a worker thread of that task that is alive, also after the
\* worker has returned early because load_task_settings failed.
C38_RegistryMatchesWorkers ==
  \A t \in TaskIds :
    is_running(t) =>
      \E w \in DOMAIN workers : workers[w].task = t /\ Alive(w)

(* ---------------- deletion with a running worker (C39) ----------------- *)
\* task t has a row in entries, tombstones, conflicts or logs
JournalRows(d, t) ==
  \/ t \in d.entries \cup d.tombstones \cup d.conflicts
  \/ d.logs[t] > 0

\* delete_task_command(t) has returned Ok
DeleteReturned(t) == \E d \in deleting : d.task = t /\ d.step = 6

\* no thread works on task t: its workers have returned and the tray thread
\* is not running
NoThreadOf(t) ==
  /\ \A w \in DOMAIN workers : workers[w].task = t => workers[w].pc = "exit"
  /\ tray.pc = "idle"

\* C39  Task deletion with a running worker leaves no orphans: once
\* delete_task_command(t) has returned and every worker of t has
\* terminated, no entries, tombstones, conflicts or logs row with
\* task_id = t exists, however the deletion was interleaved with a pass of
\* t in flight.
C39_NoOrphanRows ==
  \A t \in TaskIds : (DeleteReturned(t) /\ NoThreadOf(t)) => ~JournalRows(db, t)

\* a journal entry of the deleted task outlives the deletion and all the
\* threads: the row a pass in flight wrote after the DELETE on entries
OrphanEntry ==
  \E t \in TaskIds :
    /\ DeleteReturned(t) /\ NoThreadOf(t)
    /\ t \in db.entries
    /\ t \notin db.tasks

(* ---------------- the delete decision of the first engine (C40) -------- *)
\* (variant: a local deletion always deletes the remote file)
decide_delete_action_ignores_change(prev_local_exists, prev_remote_exists, local_exists, remote_exists, local_changed_since, remote_changed_since) ==
  IF ~local_exists /\ prev_local_exists /\ remote_exists
  THEN "DeleteRemote"
  ELSE IF ~remote_exists /\ prev_remote_exists /\ local_exists
  THEN IF local_changed_since THEN "ConflictRemoteDeleted" ELSE "DeleteLocal"
  ELSE "None"

\* decide_delete_action (src/src/sync.rs): the two early-return blocks and
\* the final DeleteDecision::None
decide_delete_action(prev_local_exists, prev_remote_exists, local_exists, remote_exists, local_changed_since, remote_changed_since) ==
  IF ~local_exists /\ prev_local_exists /\ remote_exists
  THEN IF remote_changed_since THEN "ConflictLocalDeleted" ELSE "DeleteRemote"
  ELSE IF ~remote_exists /\ prev_remote_exists /\ local_exists
  THEN IF local_changed_since THEN "ConflictRemoteDeleted" ELSE "DeleteLocal"
  ELSE "None"

\* every combination of the six boolean arguments
DeleteInputs ==
  [op : {"input"}, prev_local_exists : BOOLEAN, prev_remote_exists : BOOLEAN,
   local_exists : BOOLEAN, remote_exists : BOOLEAN,
   local_changed : BOOLEAN, remote_changed : BOOLEAN]

\* Init with the arguments of one call drawn
LegacyInit ==
  /\ local = EmptyMap
  /\ remote = EmptyMap
  /\ entries = EmptyMap
  /\ tombstones = EmptyMap
  /\ conflicts = <<>>
  /\ logs = <<>>
  /\ now = MaxTime
  /\ pc = "idle"
  /\ local_map = EmptyMap
  /\ remote_map = EmptyMap
  /\ entry_map = EmptyMap
  /\ tombstone_map = EmptyMap
  /\ all_paths = <<>>
  /\ idx = 1
  /\ stats = ZeroStats
  /\ ops = <<>>
  /\ handled = <<>>
  /\ fails = 0
  /\ ext = 0
  /\ passes = 0
  /\ walk_errors = 0
  /\ quiet = 0
  /\ AppInit
  /\ store = [entries |-> {}, tombstones |-> {}, logs |-> <<>>]
  /\ txn = [op |-> "none"]
  /\ net = [op |-> "none"]
  /\ uri = [op |-> "none"]
  /\ legacy \in DeleteInputs

\* the call: the arguments are kept next to the decision
DecideDeleteAction ==
  /\ legacy.op = "input"
  /\ legacy' = [legacy EXCEPT !.op = "decided"]
                 @@ [decision |->
                       decide_delete_action(legacy.prev_local_exists,
                                            legacy.prev_remote_exists,
                                            legacy.local_exists, legacy.remote_exists,
                                            legacy.local_changed, legacy.remote_changed)]
  /\ UNCHANGED <<sync_vars, runner_vars, store, txn, net, uri>>

LegacyNext == DecideDeleteAction

LegacySpec == LegacyInit /\ [][LegacyNext]_vars

\* the local file is gone, existed at the previous sync, the remote exists
LocalGone(a) == ~a.local_exists /\ a.prev_local_exists /\ a.remote_exists

\* the remote file is gone, existed at the previous sync, the local exists
RemoteGone(a) == ~a.remote_exists /\ a.prev_remote_exists /\ a.local_exists

\* C40  Legacy delete decision: for all boolean inputs, when the local file
\* is gone, existed at the previous sync and the remote exists the decision
\* is ConflictLocalDeleted if the remote changed and DeleteRemote otherwise;
\* else when the remote is gone, existed at the previous sync and the local
\* exists it is ConflictRemoteDeleted if the local changed and DeleteLocal
\* otherwise; in every other case it is None; and a delete is never decided
\* for a side that changed since the previous sync.
C40_DeleteDecision ==
  legacy.op = "decided" =>
    /\ (LocalGone(legacy) /\ legacy.remote_changed) =>
         legacy.decision = "ConflictLocalDeleted"
    /\ (LocalGone(legacy) /\ ~legacy.remote_changed) =>
         legacy.decision = "DeleteRemote"
    /\ (~LocalGone(legacy) /\ RemoteGone(legacy) /\ legacy.local_changed) =>
         legacy.decision = "ConflictRemoteDeleted"
    /\ (~LocalGone(legacy) /\ RemoteGone(legacy) /\ ~legacy.local_changed) =>
         legacy.decision = "DeleteLocal"
    /\ (~LocalGone(legacy) /\ ~RemoteGone(legacy)) => legacy.decision = "None"
    /\ legacy.decision = "DeleteRemote" => ~legacy.remote_changed
    /\ legacy.decision = "DeleteLocal" => ~legacy.local_changed

\* the local file is gone and the remote changed: the decision is the conflict
C40_Witness ==
  IF legacy.op = "decided"
  THEN LocalGone(legacy) /\ legacy.remote_changed
         /\ legacy.decision = "ConflictLocalDeleted"
  ELSE FALSE

\* the remote file is gone and the local is unchanged: the local is deleted
C40_WitnessDeleteLocal ==
  IF legacy.op = "decided"
  THEN RemoteGone(legacy) /\ ~legacy.local_changed /\ legacy.decision = "DeleteLocal"
  ELSE FALSE

====
